---- MODULE Spec2Model ----
(***************************************************************************)
(* Epoch-based reclamation: nexus-memory/src/epoch/collector.rs, and the   *)
(* hierarchical epoch tree: nexus-memory/src/epoch/hierarchical.rs.        *)
(*                                                                         *)
(* Every atomic access of the collector is one step of the calling thread. *)
(* Accesses that touch only the caller's own data (the thread-local slot   *)
(* index, the guard value) are folded into the neighbouring step.  Guard   *)
(* disposal and the garbage bag live in the parent module of collector.rs, *)
(* which is not part of the sources at hand; they are modelled from the    *)
(* specification (sections 4.1 and 4.4).                                   *)
(*                                                                         *)
(* A process may hold several collectors.  The slot index a thread caches  *)
(* (PARTICIPANT_IDX, a thread_local static inside                          *)
(* get_or_create_participant) is one per thread, not one per collector, so *)
(* the collectors are modelled side by side and share it.                  *)
(*                                                                         *)
(* The counters of CollectorStats exist in a build with the feature        *)
(* "statistics".  Each is written by fetch_add only and read by            *)
(* statistics() only, so its fetch_add is folded into the step beside it.  *)
(*                                                                         *)
(* The benchmark's two collectors (baselines/crossbeam-comparison.rs) and  *)
(* the verification engine (nexus-verification/src/lib.rs) are driven by   *)
(* one thread; each of their calls is one step.                            *)
(***************************************************************************)
EXTENDS Integers, Sequences, FiniteSets, TLC

\* ---------------------------------------------------------------- bounds
NumThreads == 2     \* threads sharing the collector
SpareSlots == 0     \* participant slots modelled beyond one per thread
MaxEpoch   == 4     \* try_advance is not started at or beyond this epoch
MaxDepth   == 2     \* live guards per thread
MaxRetire  == 2     \* retirements deferred in one run
MaxOps     == 2     \* pins explored after a multiple of GC_FREQUENCY
WarmGap    == 1     \* pins explored before a multiple of GC_FREQUENCY
NumCollectors == 2  \* collectors the process may construct
MaxRounds  == 9     \* pin / defer / dispose / advance rounds of the longest test
MaxRequest == 260   \* largest capacity HierarchicalEpoch::new is called with
TreeRequest == 5    \* capacity requested for the tree the threads share
MaxThreadId == 5    \* largest thread_id update_local is called with
MaxLeafEpoch == 2   \* largest epoch update_local is called with
MaxRacing  == 2     \* calls on the tree in one run of concurrent threads
MaxTreeCalls == 4   \* calls on the tree in one run of one thread
MaxFailed  == 2     \* refused try_advance calls counted by the statistics
UsizeBits  == 12    \* width of the model's usize
MaxOverflow == 1    \* register calls explored beyond MAX_PARTICIPANTS
MaxBenchEpoch == 3  \* largest epoch of the benchmark's collectors
MaxProperties == 3  \* properties added to a verification engine
MaxChecked == 6     \* property checks counted by a verification engine
MaxPerThread == 1   \* largest per_thread_bound and max_epochs of a property
MaxMockThreads == 2 \* largest active_threads() of a verified state
MaxGarbage == 9     \* largest garbage_count() of a verified state

\* ------------------------------------------------------ program constants
GC_FREQUENCY == 128
BRANCHING_FACTOR == 4
MAX_DEPTH == 4
\* u64::MAX in the program; the largest integer of the model's arithmetic.
INACTIVE == 2147483647

Threads == 1 .. NumThreads
\* The prefix of the participant array the threads can claim.  The slots
\* behind it stay unclaimed (active = 0) and try_advance skips them.
NumSlots == NumThreads + SpareSlots
Slots == 1 .. NumSlots
Bags == 0 .. 3
Collectors == 1 .. NumCollectors

\* The fields of a Collector are functions of the collector.
VARIABLES
    collectors,        \* the collectors that have been constructed
    global_epoch,      \* Collector.global_epoch
    participants,      \* Collector.participants: slot -> Participant
    num_participants,  \* Collector.num_participants
    garbage,           \* Collector.garbage: bag index -> sequence of retirements
    ops_since_gc,      \* Collector.ops_since_gc
    dropped,           \* the collector has been dropped
    pc,                \* thread -> position in its current call
    idx,               \* thread -> PARTICIPANT_IDX (0 is None)
    loc,               \* thread -> locals of its current call
    guards,            \* thread -> live guards [c, id, epoch], oldest first
    retired,           \* retirement -> [c, by, epoch, wit, runs]
    test,              \* the sequential test being run, if any
    advanced,          \* collector -> try_advance calls that returned true
    stats,             \* Collector.stats (feature "statistics"), << >> without it
    events,            \* collector -> what the statistics are about, counted as it happens
    requested,         \* the capacity HierarchicalEpoch::new is called with
    local_epochs,      \* HierarchicalEpoch.local_epochs: leaf -> epoch
    aggregation,       \* HierarchicalEpoch.aggregation: level -> node -> epoch
    capacity,          \* HierarchicalEpoch.capacity (0: no tree constructed)
    depth,             \* HierarchicalEpoch.depth
    calls_left,        \* calls on the tree the run may still start
    flat,              \* the benchmark's FlatEpochCollector
    hier,              \* the benchmark's HierarchicalEpochCollector
    engine,            \* the VerificationEngine
    returned           \* what the last call on them returned

\* The collector and its callers' thread-local state.
colvars == << collectors, global_epoch, participants, num_participants, garbage,
              ops_since_gc, dropped, idx, guards, retired, test, advanced, stats, events >>

\* The tree.
treevars == << local_epochs, aggregation, capacity, depth, requested, calls_left >>

\* The benchmark's two collectors and the verification engine.
libvars == << flat, hier, engine, returned >>

vars == << colvars, treevars, libvars, pc, loc >>

\* ---------------------------------------------------------------- helpers
Range(s) == { s[k] : k \in 1 .. Len(s) }

Remove(s, k) == [ j \in 1 .. (Len(s) - 1) |-> IF j < k THEN s[j] ELSE s[j + 1] ]

NoLocals == [ c |-> 0, epoch |-> 0, current |-> 0, i |-> 0, ctx |-> "none", r |-> 0 ]

\* Participant::default
DefaultParticipant ==
    [ epoch |-> INACTIVE, active |-> 0, pin_count |-> 0, local_garbage |-> << >> ]

\* The guards of collector c that are live, as (thread, handle) pairs.
LiveGuards(c) ==
    UNION { { << t, guards[t][k].id >> : k \in { j \in 1 .. Len(guards[t]) :
                                                    guards[t][j].c = c } } :
            t \in Threads }

\* The handle a new guard of thread t gets: the lowest one no live guard has.
FreeHandle(t) ==
    CHOOSE h \in 1 .. (MaxDepth + 1) :
        /\ \A k \in 1 .. Len(guards[t]) : guards[t][k].id # h
        /\ \A g \in 1 .. (h - 1) : \E k \in 1 .. Len(guards[t]) : guards[t][k].id = g

\* ------------------------------------------------------- sequential tests
\* A test is a list of calls run one after the other, each to completion.
\* With the empty script the threads call what they like, concurrently.
NoTest == [ script |-> << >>, pos |-> 1, results |-> << >> ]

Scripted == test.script # << >>

\* The two threads of the scenarios: "thread A" and the main thread.
A == CHOOSE t \in Threads : \A u \in Threads : t <= u
B == CHOOSE t \in Threads \ {A} : \A u \in Threads \ {A} : t <= u

\* The collector of the scenarios, and another one.
Col1 == CHOOSE c \in Collectors : \A d \in Collectors : c <= d
Col2 == CHOOSE c \in Collectors \ {Col1} : \A d \in Collectors \ {Col1} : c <= d

\* S1: four try_advance calls on a fresh collector.
S1 == << <<"try_advance", B, Col1>>, <<"try_advance", B, Col1>>,
         <<"try_advance", B, Col1>>, <<"try_advance", B, Col1>> >>

\* S2 (tests::test_guard_prevents_advance): pin, two advances, drop(guard), advance.
S2 == << <<"pin", A, Col1>>, <<"try_advance", B, Col1>>, <<"try_advance", B, Col1>>,
         <<"dispose", A, 1>>, <<"try_advance", B, Col1>> >>

\* S3: pin, defer, dispose, try_advance_and_collect twice.
S3 == << <<"pin", A, Col1>>, <<"defer", A, Col1>>, <<"dispose", A, 1>>,
         <<"try_advance_and_collect", B, Col1>>,
         <<"try_advance_and_collect", B, Col1>> >>

\* S6 (tests::test_nested_pinning, with the advances of the scenario): G1, G2,
\* advance, drop G1, advance, drop G2, advance.
S6 == << <<"pin", A, Col1>>, <<"pin", A, Col1>>, <<"try_advance", B, Col1>>,
         <<"dispose", A, 1>>, <<"try_advance", B, Col1>>, <<"dispose", A, 1>>,
         <<"try_advance", B, Col1>> >>

\* One thread pins two collectors (as tests::test_pin_unpin and
\* tests::test_nested_pinning do when they run on one thread), and another
\* thread pins the second collector in between.
TwoCollectors ==
    << <<"pin", A, Col1>>, <<"pin", B, Col2>>, <<"pin", A, Col2>> >>

\* n rounds of pin, defer, drop(guard), try_advance.
RECURSIVE Rounds(_)
Rounds(n) ==
    IF n = 0 THEN << >>
    ELSE Rounds(n - 1) \o << <<"pin", A, Col1>>, <<"defer", A, Col1>>,
                             <<"dispose", A, 1>>, <<"try_advance", B, Col1>> >>

Scenarios == { S1, S2, S3, S6, TwoCollectors, Rounds(MaxRounds) }

Calls ==
    { <<"pin", t, c>> : t \in Threads, c \in Collectors } \cup
    { <<"defer", t, c>> : t \in Threads, c \in Collectors } \cup
    { <<"try_advance", t, c>> : t \in Threads, c \in Collectors } \cup
    { <<"try_advance_and_collect", t, c>> : t \in Threads, c \in Collectors } \cup
    { <<"dispose", t, 1>> : t \in Threads } \cup { <<"drop", c>> : c \in Collectors }

Scripts ==
    Scenarios \cup { Append(s, <<"drop", Col1>>) : s \in Scenarios } \cup
    { << c >> : c \in Calls } \cup { << c, d >> : c \in Calls, d \in Calls }

\* A call on collector c begins: the thread is idle and the collector alive;
\* in a test, it is the script's next call and no other call is running.
Begin(t, call, c) ==
    /\ c \in collectors
    /\ ~dropped[c]
    /\ pc[t] = "idle"
    /\ Scripted =>
         /\ \A u \in Threads : pc[u] = "idle"
         /\ test.pos <= Len(test.script)
         /\ test.script[test.pos] = call
    /\ test' = IF Scripted THEN [test EXCEPT !.pos = @ + 1] ELSE test

\* A build without the feature "statistics": the collector has no stats.
NoStats == << >>

\* A process that constructs neither of the benchmark's collectors nor a
\* verification engine.
NoLibraries ==
    /\ flat = << >> /\ hier = << >>
    /\ engine = << >> /\ returned = << >>

\* CollectorStats::default (lines 100-111, 185)
NewStats ==
    [ c \in Collectors |-> [ objects_collected |-> 0, collection_cycles |-> 0,
                             epoch_advances |-> 0, failed_advances |-> 0 ] ]

\* Nothing has happened on any collector.
NoEvents == [ c \in Collectors |-> [ refused |-> 0, collecting |-> 0 ] ]

\* Refused try_advance calls are counted as far as MaxFailed, and as far as
\* a test goes.
FailuresLeft(c) ==
    IF Scripted \/ stats = NoStats THEN TRUE
    ELSE stats[c].failed_advances < MaxFailed

\* What a run explores: a test as far as its rounds go, concurrent threads
\* as far as the bounds.
EpochCap == IF Scripted THEN MaxRounds + 1 ELSE MaxEpoch
RetireCap == IF Scripted THEN MaxRounds ELSE MaxRetire
OpsCap == IF Scripted THEN MaxRounds ELSE MaxOps


\* Pins are explored in a window around the multiples of GC_FREQUENCY, where
\* pin calls try_advance_and_collect.
PinsLeft(c) ==
    \/ ops_since_gc[c] % GC_FREQUENCY < OpsCap
    \/ ops_since_gc[c] % GC_FREQUENCY >= GC_FREQUENCY - WarmGap

\* ------------------------------------------------------------------ Init
\* Collector::new
NewEpoch == [ c \in Collectors |-> 0 ]
NewParticipants == [ c \in Collectors |-> [ s \in Slots |-> DefaultParticipant ] ]
NewGarbage == [ c \in Collectors |-> [ b \in Bags |-> << >> ] ]

\* No tree is in use.
NoTree ==
    /\ local_epochs = << >>
    /\ aggregation = << >>
    /\ capacity = 0
    /\ depth = 0

\* One fresh collector.
Init ==
    /\ collectors = { Col1 }
    /\ global_epoch = NewEpoch
    /\ participants = NewParticipants
    /\ num_participants = [ c \in Collectors |-> 0 ]
    /\ garbage = NewGarbage
    /\ ops_since_gc = [ c \in Collectors |-> 0 ]
    /\ dropped = [ c \in Collectors |-> FALSE ]
    /\ pc = [ t \in Threads |-> "idle" ]
    /\ idx = [ t \in Threads |-> 0 ]
    /\ loc = [ t \in Threads |-> NoLocals ]
    /\ guards = [ t \in Threads |-> << >> ]
    /\ retired = << >>
    /\ test = NoTest
    /\ advanced = [ c \in Collectors |-> 0 ]
    /\ stats = NoStats /\ events = NoStats
    /\ NoLibraries
    /\ NoTree /\ requested = 0 /\ calls_left = 0

\* The collector after one thread has run GC_FREQUENCY - WarmGap pin / guard
\* disposal pairs and nothing else: the first pin advanced the epoch to 1,
\* the thread has kept slot 1, the bags are empty.  From here the pin that
\* finds ops_since_gc = GC_FREQUENCY is WarmGap pins away.
InitWarm ==
    /\ collectors = { Col1 }
    /\ global_epoch = [ NewEpoch EXCEPT ![Col1] = 1 ]
    /\ participants = [ NewParticipants EXCEPT ![Col1][1].active = 1 ]
    /\ num_participants = [ c \in Collectors |-> IF c = Col1 THEN 1 ELSE 0 ]
    /\ garbage = NewGarbage
    /\ ops_since_gc = [ c \in Collectors |->
                          IF c = Col1 THEN GC_FREQUENCY - WarmGap ELSE 0 ]
    /\ dropped = [ c \in Collectors |-> FALSE ]
    /\ pc = [ t \in Threads |-> "idle" ]
    /\ idx = [ t \in Threads |-> IF t = A THEN 1 ELSE 0 ]
    /\ loc = [ t \in Threads |-> NoLocals ]
    /\ guards = [ t \in Threads |-> << >> ]
    /\ retired = << >>
    /\ test = NoTest
    /\ advanced = [ c \in Collectors |-> IF c = Col1 THEN 1 ELSE 0 ]
    /\ stats = NoStats /\ events = NoStats
    /\ NoLibraries
    /\ NoTree /\ requested = 0 /\ calls_left = 0

\* Two fresh collectors and a test to run on them.
InitSeq ==
    /\ collectors = Collectors
    /\ global_epoch = NewEpoch
    /\ participants = NewParticipants
    /\ num_participants = [ c \in Collectors |-> 0 ]
    /\ garbage = NewGarbage
    /\ ops_since_gc = [ c \in Collectors |-> 0 ]
    /\ dropped = [ c \in Collectors |-> FALSE ]
    /\ pc = [ t \in Threads |-> "idle" ]
    /\ idx = [ t \in Threads |-> 0 ]
    /\ loc = [ t \in Threads |-> NoLocals ]
    /\ guards = [ t \in Threads |-> << >> ]
    /\ retired = << >>
    /\ test \in { [ NoTest EXCEPT !.script = s ] : s \in Scripts }
    /\ advanced = [ c \in Collectors |-> 0 ]
    /\ stats = NewStats /\ events = NoEvents
    /\ NoLibraries
    /\ NoTree /\ requested = 0 /\ calls_left = 0

\* A fresh collector in a process where thread A has used a collector
\* before: A pinned the first collector once, disposed of the guard, and the
\* first collector was dropped.  A's PARTICIPANT_IDX still holds the slot
\* index it claimed there.
InitStale ==
    /\ collectors = { Col2 }
    /\ global_epoch = [ NewEpoch EXCEPT ![Col1] = 1 ]
    /\ participants = [ NewParticipants EXCEPT ![Col1][1].active = 1 ]
    /\ num_participants = [ c \in Collectors |-> IF c = Col1 THEN 1 ELSE 0 ]
    /\ garbage = NewGarbage
    /\ ops_since_gc = [ c \in Collectors |-> IF c = Col1 THEN 1 ELSE 0 ]
    /\ dropped = [ c \in Collectors |-> c = Col1 ]
    /\ pc = [ t \in Threads |-> "idle" ]
    /\ idx = [ t \in Threads |-> IF t = A THEN 1 ELSE 0 ]
    /\ loc = [ t \in Threads |-> NoLocals ]
    /\ guards = [ t \in Threads |-> << >> ]
    /\ retired = << >>
    /\ test = NoTest
    /\ advanced = [ c \in Collectors |-> IF c = Col1 THEN 1 ELSE 0 ]
    /\ stats = NoStats /\ events = NoStats
    /\ NoLibraries
    /\ NoTree /\ requested = 0 /\ calls_left = 0

\* The collector of InitWarm in a build with the feature "statistics": the
\* one advance has been counted, no call was refused, nothing was collected.
InitStats ==
    /\ collectors = { Col1 }
    /\ global_epoch = [ NewEpoch EXCEPT ![Col1] = 1 ]
    /\ participants = [ NewParticipants EXCEPT ![Col1][1].active = 1 ]
    /\ num_participants = [ c \in Collectors |-> IF c = Col1 THEN 1 ELSE 0 ]
    /\ garbage = NewGarbage
    /\ ops_since_gc = [ c \in Collectors |->
                          IF c = Col1 THEN GC_FREQUENCY - WarmGap ELSE 0 ]
    /\ dropped = [ c \in Collectors |-> FALSE ]
    /\ pc = [ t \in Threads |-> "idle" ]
    /\ idx = [ t \in Threads |-> IF t = A THEN 1 ELSE 0 ]
    /\ loc = [ t \in Threads |-> NoLocals ]
    /\ guards = [ t \in Threads |-> << >> ]
    /\ retired = << >>
    /\ test = NoTest
    /\ advanced = [ c \in Collectors |-> IF c = Col1 THEN 1 ELSE 0 ]
    /\ stats = [ NewStats EXCEPT ![Col1].epoch_advances = 1 ]
    /\ events = NoEvents
    /\ NoLibraries
    /\ NoTree /\ requested = 0 /\ calls_left = 0

\* The process of InitStale in a build with the feature "statistics".
InitStaleStats ==
    /\ collectors = { Col2 }
    /\ global_epoch = [ NewEpoch EXCEPT ![Col1] = 1 ]
    /\ participants = [ NewParticipants EXCEPT ![Col1][1].active = 1 ]
    /\ num_participants = [ c \in Collectors |-> IF c = Col1 THEN 1 ELSE 0 ]
    /\ garbage = NewGarbage
    /\ ops_since_gc = [ c \in Collectors |-> IF c = Col1 THEN 1 ELSE 0 ]
    /\ dropped = [ c \in Collectors |-> c = Col1 ]
    /\ pc = [ t \in Threads |-> "idle" ]
    /\ idx = [ t \in Threads |-> IF t = A THEN 1 ELSE 0 ]
    /\ loc = [ t \in Threads |-> NoLocals ]
    /\ guards = [ t \in Threads |-> << >> ]
    /\ retired = << >>
    /\ test = NoTest
    /\ advanced = [ c \in Collectors |-> IF c = Col1 THEN 1 ELSE 0 ]
    /\ stats = [ NewStats EXCEPT ![Col1].epoch_advances = 1 ]
    /\ events = NoEvents
    /\ NoLibraries
    /\ NoTree /\ requested = 0 /\ calls_left = 0

\* The collector of InitWarm when every slot has been claimed: slot 1 by
\* thread A, the others by threads that pinned and have exited (a slot is
\* never released).
InitFull ==
    /\ collectors = { Col1 }
    /\ global_epoch = [ NewEpoch EXCEPT ![Col1] = 1 ]
    /\ participants = [ NewParticipants EXCEPT
                          ![Col1] = [ s \in Slots |->
                                        [DefaultParticipant EXCEPT !.active = 1] ] ]
    /\ num_participants = [ c \in Collectors |-> IF c = Col1 THEN NumSlots ELSE 0 ]
    /\ garbage = NewGarbage
    /\ ops_since_gc = [ c \in Collectors |->
                          IF c = Col1 THEN GC_FREQUENCY - WarmGap ELSE 0 ]
    /\ dropped = [ c \in Collectors |-> FALSE ]
    /\ pc = [ t \in Threads |-> "idle" ]
    /\ idx = [ t \in Threads |-> IF t = A THEN 1 ELSE 0 ]
    /\ loc = [ t \in Threads |-> NoLocals ]
    /\ guards = [ t \in Threads |-> << >> ]
    /\ retired = << >>
    /\ test = NoTest
    /\ advanced = [ c \in Collectors |-> IF c = Col1 THEN 1 ELSE 0 ]
    /\ stats = NoStats /\ events = NoStats
    /\ NoLibraries
    /\ NoTree /\ requested = 0 /\ calls_left = 0

\* ------------------------------------------------------------------- pin
\* Collector::pin, entry: get_or_create_participant finds the cached index
\* or starts the scan of allocate_participant.
PinBegin(t, c) ==
    /\ Begin(t, <<"pin", t, c>>, c)
    /\ Len(guards[t]) < MaxDepth
    /\ PinsLeft(c)
    /\ pc' = [pc EXCEPT ![t] = IF idx[t] = 0 THEN "alloc" ELSE "pin_load"]
    /\ loc' = [loc EXCEPT ![t] = [NoLocals EXCEPT !.c = c, !.i = 1]]
    /\ UNCHANGED << treevars, libvars, stats, events, advanced, collectors, global_epoch, participants, num_participants,
                    garbage, ops_since_gc, dropped, idx, guards, retired >>

\* allocate_participant, line 347: the scan has passed the last slot.
Exhausted(i) == i > NumSlots

\* A scan that takes whatever slot it looks at.
ClaimTaken(p) == TRUE

\* allocate_participant, lines 348-350: compare_exchange(0, 1) succeeds.
Claim(p) == p.active = 0

\* Collector::allocate_participant: one compare_exchange on slot i.
AllocStep(t) ==
    /\ pc[t] = "alloc"
    /\ LET i == loc[t].i
           c == loc[t].c
       IN
       IF Exhausted(i)
       THEN \* panic!("Maximum number of participants exceeded")
            /\ pc' = [pc EXCEPT ![t] = "panicked"]
            /\ UNCHANGED << participants, num_participants, idx, loc >>
       ELSE IF Claim(participants[c][i])
       THEN /\ participants' = [participants EXCEPT ![c][i].active = 1]
            /\ num_participants' = [num_participants EXCEPT ![c] = @ + 1]
            /\ idx' = [idx EXCEPT ![t] = i]
            /\ pc' = [pc EXCEPT ![t] = "pin_load"]
            /\ UNCHANGED loc
       ELSE /\ loc' = [loc EXCEPT ![t].i = i + 1]
            /\ UNCHANGED << participants, num_participants, idx, pc >>
    /\ UNCHANGED << treevars, libvars, stats, events, advanced, collectors, global_epoch, garbage, ops_since_gc, dropped,
                    guards, retired, test >>

\* pin, line 214: let epoch = self.global_epoch.load(SeqCst)
PinLoad(t) ==
    /\ pc[t] = "pin_load"
    /\ loc' = [loc EXCEPT ![t].epoch = global_epoch[loc[t].c]]
    /\ pc' = [pc EXCEPT ![t] = "pin_store"]
    /\ UNCHANGED << treevars, libvars, stats, events, advanced, collectors, global_epoch, participants, num_participants,
                    garbage, ops_since_gc, dropped, idx, guards, retired, test >>

\* pin, line 215: participant.epoch.store(epoch, SeqCst)
PinStore(t) ==
    /\ pc[t] = "pin_store"
    /\ participants' = [participants EXCEPT ![loc[t].c][idx[t]].epoch = loc[t].epoch]
    /\ pc' = [pc EXCEPT ![t] = "pin_count"]
    /\ UNCHANGED << treevars, libvars, stats, events, advanced, collectors, global_epoch, num_participants, garbage,
                    ops_since_gc, dropped, idx, loc, guards, retired, test >>

\* pin, line 216: participant.pin_count.fetch_add(1, Relaxed)
PinCount(t) ==
    /\ pc[t] = "pin_count"
    /\ participants' = [participants EXCEPT ![loc[t].c][idx[t]].pin_count = @ + 1]
    /\ pc' = [pc EXCEPT ![t] = "pin_ops"]
    /\ UNCHANGED << treevars, libvars, stats, events, advanced, collectors, global_epoch, num_participants, garbage,
                    ops_since_gc, dropped, idx, loc, guards, retired, test >>

\* A pin that collects when the incremented counter is a multiple.
CollectAfterIncrement(ops) == (ops + 1) % GC_FREQUENCY = 0

\* pin, line 220: whether the value fetch_add returned asks for a collection.
CollectNow(ops) == ops % GC_FREQUENCY = 0

\* pin, line 224: Guard::new(self, participant); the call returns.
PinReturn(t) ==
    /\ guards' = [guards EXCEPT ![t] =
                    Append(@, [c |-> loc[t].c, id |-> FreeHandle(t),
                               epoch |-> loc[t].epoch])]
    /\ pc' = [pc EXCEPT ![t] = "idle"]
    /\ loc' = [loc EXCEPT ![t] = NoLocals]

\* pin, lines 219-222: ops_since_gc.fetch_add(1), then either
\* try_advance_and_collect or the return.
PinOps(t) ==
    /\ pc[t] = "pin_ops"
    /\ ops_since_gc' = [ops_since_gc EXCEPT ![loc[t].c] = @ + 1]
    /\ IF CollectNow(ops_since_gc[loc[t].c])
       THEN /\ pc' = [pc EXCEPT ![t] = "adv_load"]
            /\ loc' = [loc EXCEPT ![t].ctx = "pin"]
            /\ UNCHANGED guards
       ELSE PinReturn(t)
    /\ UNCHANGED << treevars, libvars, stats, events, advanced, collectors, global_epoch, participants, num_participants,
                    garbage, dropped, idx, retired, test >>

\* ----------------------------------------------------------- try_advance
\* Collector::try_advance, public call.
TryAdvance(t, c) ==
    /\ Begin(t, <<"try_advance", t, c>>, c)
    /\ global_epoch[c] < EpochCap
    /\ FailuresLeft(c)
    /\ pc' = [pc EXCEPT ![t] = "adv_load"]
    /\ loc' = [loc EXCEPT ![t] = [NoLocals EXCEPT !.c = c, !.ctx = "public"]]
    /\ UNCHANGED << treevars, libvars, stats, events, advanced, collectors, global_epoch, participants, num_participants,
                    garbage, ops_since_gc, dropped, idx, guards, retired >>

\* self.stats.<counter>.fetch_add(n, Relaxed) of a build with the feature
\* "statistics" (lines 259-260, 273-276, 295-300); nothing without it.
StatAdd(c, counter, n) ==
    IF stats = NoStats THEN stats ELSE [stats EXCEPT ![c][counter] = @ + n]

\* What happened on collector c, counted beside the statistics.
Event(c, event) ==
    IF events = NoStats THEN events ELSE [events EXCEPT ![c][event] = @ + 1]

\* Collector::try_advance_and_collect called on its own, as the scenarios of
\* the specification do.  Only tests run it; the program calls it from pin.
DirectAdvanceCollect(t, c) ==
    /\ Scripted
    /\ Begin(t, <<"try_advance_and_collect", t, c>>, c)
    /\ global_epoch[c] < EpochCap
    /\ pc' = [pc EXCEPT ![t] = "adv_load"]
    /\ loc' = [loc EXCEPT ![t] = [NoLocals EXCEPT !.c = c, !.ctx = "direct"]]
    /\ UNCHANGED << treevars, libvars, stats, events, advanced, collectors, global_epoch, participants, num_participants,
                    garbage, ops_since_gc, dropped, idx, guards, retired >>

\* try_advance, line 242: let current = self.global_epoch.load(SeqCst)
AdvLoad(t) ==
    /\ pc[t] = "adv_load"
    /\ global_epoch[loc[t].c] < EpochCap
    /\ loc' = [loc EXCEPT ![t].current = global_epoch[loc[t].c], ![t].i = 1]
    /\ pc' = [pc EXCEPT ![t] = "adv_scan"]
    /\ UNCHANGED << treevars, libvars, stats, events, advanced, collectors, global_epoch, participants, num_participants,
                    garbage, ops_since_gc, dropped, idx, guards, retired, test >>

\* try_advance, lines 246-255: the slots the scan passes over.
Skipped(p) == p.active = 0 \/ p.epoch = INACTIVE

\* A scan that also refuses for a participant in the current epoch.
BehindOrLevel(p_epoch, current) == p_epoch <= current

\* try_advance, line 258: a participant that is behind.
Behind(p_epoch, current) == p_epoch < current

\* A try_advance that goes on to collect whoever called it.
AdvReturnCollects(t, ok) ==
    IF ok
    THEN /\ pc' = [pc EXCEPT ![t] = "col_load"]
         /\ UNCHANGED << loc, guards, test >>
    ELSE /\ pc' = [pc EXCEPT ![t] = "idle"]
         /\ loc' = [loc EXCEPT ![t] = NoLocals]
         /\ UNCHANGED << guards, test >>

\* try_advance returns ok to its caller: the test, pin's
\* try_advance_and_collect (line 284) or a direct try_advance_and_collect.
AdvReturn(t, ok) ==
    IF loc[t].ctx = "public"
    THEN /\ pc' = [pc EXCEPT ![t] = "idle"]
         /\ loc' = [loc EXCEPT ![t] = NoLocals]
         /\ test' = IF Scripted THEN [test EXCEPT !.results = Append(@, ok)] ELSE test
         /\ UNCHANGED guards
    ELSE IF ok
    THEN /\ pc' = [pc EXCEPT ![t] = "col_load"]
         /\ UNCHANGED << loc, guards, test >>
    ELSE IF loc[t].ctx = "pin"
    THEN PinReturn(t) /\ UNCHANGED test
    ELSE /\ pc' = [pc EXCEPT ![t] = "idle"]
         /\ loc' = [loc EXCEPT ![t] = NoLocals]
         /\ UNCHANGED << guards, test >>

\* try_advance, lines 245-263: one iteration of the scan, on slot i.
AdvScan(t) ==
    /\ pc[t] = "adv_scan"
    /\ LET i == loc[t].i
           p == participants[loc[t].c][i]
       IN  IF ~Skipped(p) /\ Behind(p.epoch, loc[t].current)
           THEN /\ stats' = StatAdd(loc[t].c, "failed_advances", 1)
                /\ events' = Event(loc[t].c, "refused")
                /\ AdvReturn(t, FALSE)
           ELSE /\ pc' = [pc EXCEPT ![t] = IF i = NumSlots THEN "adv_cas" ELSE "adv_scan"]
                /\ loc' = [loc EXCEPT ![t].i = i + 1]
                /\ UNCHANGED << guards, test, stats, events >>
    /\ UNCHANGED << treevars, libvars, advanced, collectors, global_epoch, participants, num_participants,
                    garbage, ops_since_gc, dropped, idx, retired >>

\* An advance that skips an epoch.
NextEpochSkips(current) == current + 2

\* try_advance, line 268: current.wrapping_add(1)
NextEpoch(current) == current + 1

\* A compare_exchange that never fails.
CasAlways(observed, expected) == TRUE

\* try_advance, lines 266-271: compare_exchange succeeds when the global
\* epoch is still the one loaded at line 242.
CasSucceeds(observed, expected) == observed = expected

\* try_advance, lines 266-278: compare_exchange(current, current + 1); the
\* call returns whether it succeeded.
AdvCas(t) ==
    /\ pc[t] = "adv_cas"
    /\ IF CasSucceeds(global_epoch[loc[t].c], loc[t].current)
       THEN /\ global_epoch' = [global_epoch EXCEPT
                                  ![loc[t].c] = NextEpoch(loc[t].current)]
            /\ advanced' = [advanced EXCEPT ![loc[t].c] = @ + 1]
            /\ stats' = StatAdd(loc[t].c, "epoch_advances", 1)
            /\ events' = IF loc[t].ctx # "public" /\ NextEpoch(loc[t].current) >= 2
                         THEN Event(loc[t].c, "collecting") ELSE events
            /\ AdvReturn(t, TRUE)
       ELSE /\ UNCHANGED << global_epoch, advanced, stats, events >>
            /\ AdvReturn(t, FALSE)
    /\ UNCHANGED << treevars, libvars, collectors, participants, num_participants, garbage,
                    ops_since_gc, dropped, idx, retired >>

\* ----------------------------------------------- try_advance_and_collect
\* try_advance_and_collect returns to pin or to the test.
CollectReturn(t) ==
    IF loc[t].ctx = "pin"
    THEN PinReturn(t)
    ELSE /\ pc' = [pc EXCEPT ![t] = "idle"]
         /\ loc' = [loc EXCEPT ![t] = NoLocals]
         /\ UNCHANGED guards

\* A collection that takes the bag of the previous epoch.
OldBagOneBack(current) == (current - 1) % 4

\* try_advance_and_collect, line 289: let old_epoch = (current - 2) % 4
OldBag(current) == (current - 2) % 4

\* A collection that counts no object.
CollectedNone(bag) == 0

\* try_advance_and_collect, line 297: let collected = bag.len()
Collected(bag) == Len(bag)

\* try_advance_and_collect, lines 285-300: reload the epoch; when it is >= 2
\* take the bag and count what it holds and the cycle.
ColLoad(t) ==
    /\ pc[t] = "col_load"
    /\ LET c == loc[t].c
           current == global_epoch[c]
       IN
       IF current >= 2
       THEN /\ pc' = [pc EXCEPT ![t] = "col_drain"]
            /\ loc' = [loc EXCEPT ![t].current = current]
            /\ stats' = IF stats = NoStats THEN stats
                        ELSE [stats EXCEPT
                                ![c].objects_collected =
                                    @ + Collected(garbage[c][OldBag(current)]),
                                ![c].collection_cycles = @ + 1]
            /\ UNCHANGED guards
       ELSE CollectReturn(t) /\ UNCHANGED stats
    /\ UNCHANGED << treevars, libvars, events, advanced, collectors, global_epoch, participants, num_participants,
                    garbage, ops_since_gc, dropped, idx, retired, test >>

\* defer, line 314: let bag_idx = (epoch % 4) as usize
DeferBag(epoch) == epoch % 4

\* The destructors of the retirements in rs have run once more.
Run(rs) ==
    [ r \in DOMAIN retired |->
        IF r \in rs THEN [retired[r] EXCEPT !.runs = IF @ < 2 THEN @ + 1 ELSE @]
                    ELSE retired[r] ]

\* Another thread is in bag.defer on bag b of collector c (defer, line 318).
Appending(t, c, b) ==
    \E u \in Threads \ {t} :
        pc[u] = "def_append" /\ loc[u].c = c /\ DeferBag(loc[u].epoch) = b

\* Another thread is in bag.collect on bag b of collector c
\* (try_advance_and_collect, line 302).
Draining(t, c, b) ==
    \E u \in Threads \ {t} :
        pc[u] = "col_drain" /\ loc[u].c = c /\ OldBag(loc[u].current) = b

\* The bags are UnsafeCells handed out as &mut with no lock (lines 293, 317):
\* two calls on one bag at the same time are a data race.  A drain that
\* overlaps another drain of the bag may leave to it the retirements it ran.
DrainOutcomes(t, c, b) ==
    IF Draining(t, c, b) THEN { "cleared", "shared" } ELSE { "cleared" }

\* An append that overlaps another call on the bag may be lost.
AppendOutcomes(t, c, b) ==
    IF Appending(t, c, b) \/ Draining(t, c, b) THEN { "kept", "lost" } ELSE { "kept" }

\* try_advance_and_collect, lines 293-302: bag.collect() runs every
\* destructor of the bag and clears it.
ColDrain(t) ==
    /\ pc[t] = "col_drain"
    /\ LET c == loc[t].c
           b == OldBag(loc[t].current)
       IN
       \E out \in DrainOutcomes(t, c, b) :
          /\ retired' = Run(Range(garbage[c][b]))
          /\ garbage' = IF out = "cleared" THEN [garbage EXCEPT ![c][b] = << >>]
                                           ELSE garbage
    /\ CollectReturn(t)
    /\ UNCHANGED << treevars, libvars, stats, events, advanced, collectors, global_epoch, participants, num_participants,
                    ops_since_gc, dropped, idx, test >>

\* ----------------------------------------------------------------- defer
\* Collector::defer, line 313: let epoch = self.global_epoch.load(SeqCst).
\* The caller holds a guard of the collector.  The retirement remembers the
\* collector, the thread, the epoch read and the guards live at the call.
DeferBegin(t, c) ==
    /\ Begin(t, <<"defer", t, c>>, c)
    /\ \E k \in 1 .. Len(guards[t]) : guards[t][k].c = c
    /\ Len(retired) < RetireCap
    /\ retired' = Append(retired, [c |-> c, by |-> t, epoch |-> global_epoch[c],
                                   wit |-> LiveGuards(c), runs |-> 0])
    /\ loc' = [loc EXCEPT ![t] = [NoLocals EXCEPT !.c = c,
                                                  !.epoch = global_epoch[c],
                                                  !.r = Len(retired) + 1]]
    /\ pc' = [pc EXCEPT ![t] = "def_append"]
    /\ UNCHANGED << treevars, libvars, stats, events, advanced, collectors, global_epoch, participants, num_participants,
                    garbage, ops_since_gc, dropped, idx, guards >>

\* defer, lines 314-318: bag.defer(ptr) on bag epoch % 4.
DeferAppend(t) ==
    /\ pc[t] = "def_append"
    /\ LET c == loc[t].c
           b == DeferBag(loc[t].epoch)
       IN
       \E out \in AppendOutcomes(t, c, b) :
          garbage' = IF out = "kept"
                     THEN [garbage EXCEPT ![c][b] = Append(@, loc[t].r)]
                     ELSE garbage
    /\ pc' = [pc EXCEPT ![t] = "idle"]
    /\ loc' = [loc EXCEPT ![t] = NoLocals]
    /\ UNCHANGED << treevars, libvars, stats, events, advanced, collectors, global_epoch, participants, num_participants,
                    ops_since_gc, dropped, idx, guards, retired, test >>

\* -------------------------------------------------------- guard disposal
\* Drop for Guard (specification 4.4): decrement pin_depth; at 0 store
\* INACTIVE into observed_epoch.  k is the guard's place among the live ones;
\* the guard holds the participant pin gave it, slot idx[t] of its collector.
Dispose(t, k) ==
    /\ k \in 1 .. Len(guards[t])
    /\ Begin(t, <<"dispose", t, k>>, guards[t][k].c)
    /\ LET c == guards[t][k].c IN
       /\ participants' = [participants EXCEPT
                             ![c][idx[t]].pin_count = @ - 1,
                             ![c][idx[t]].epoch =
                                 IF participants[c][idx[t]].pin_count = 1
                                 THEN INACTIVE ELSE @]
       /\ retired' = [ r \in DOMAIN retired |->
                         IF retired[r].c = c
                         THEN [retired[r] EXCEPT
                                 !.wit = @ \ { << t, guards[t][k].id >> }]
                         ELSE retired[r] ]
    /\ guards' = [guards EXCEPT ![t] = Remove(@, k)]
    /\ UNCHANGED << treevars, libvars, stats, events, advanced, collectors, global_epoch, num_participants, garbage,
                    ops_since_gc, dropped, pc, idx, loc >>

\* ------------------------------------------------------------------ drop
\* Drop for Collector: collect every bag, then every participant's local
\* bag.  &mut self: no guard of the collector is live and no call on it is
\* running.
CollectorDrop(c) ==
    /\ c \in collectors
    /\ ~dropped[c]
    /\ \A t \in Threads :
          /\ pc[t] \in { "idle", "panicked" } \/ loc[t].c # c
          /\ \A k \in 1 .. Len(guards[t]) : guards[t][k].c # c
    /\ Scripted => /\ \A t \in Threads : pc[t] = "idle"
                   /\ test.pos <= Len(test.script)
                   /\ test.script[test.pos] = <<"drop", c>>
    /\ test' = IF Scripted THEN [test EXCEPT !.pos = @ + 1] ELSE test
    /\ retired' = Run(UNION ({ Range(garbage[c][b]) : b \in Bags } \cup
                             { Range(participants[c][s].local_garbage) : s \in Slots }))
    /\ garbage' = [garbage EXCEPT ![c] = [ b \in Bags |-> << >> ]]
    /\ participants' = [participants EXCEPT ![c] =
                          [ s \in Slots |-> [@[s] EXCEPT !.local_garbage = << >>] ]]
    /\ dropped' = [dropped EXCEPT ![c] = TRUE]
    /\ UNCHANGED << treevars, libvars, stats, events, advanced, collectors, global_epoch, num_participants, ops_since_gc,
                    pc, idx, loc, guards >>

\* ------------------------------------------------------------------ Next
Next ==
    \/ \E t \in Threads, c \in Collectors : PinBegin(t, c)
    \/ \E t \in Threads : AllocStep(t)
    \/ \E t \in Threads : PinLoad(t)
    \/ \E t \in Threads : PinStore(t)
    \/ \E t \in Threads : PinCount(t)
    \/ \E t \in Threads : PinOps(t)
    \/ \E t \in Threads, c \in Collectors : TryAdvance(t, c)
    \/ \E t \in Threads : AdvLoad(t)
    \/ \E t \in Threads : AdvScan(t)
    \/ \E t \in Threads : AdvCas(t)
    \/ \E t \in Threads : ColLoad(t)
    \/ \E t \in Threads : ColDrain(t)
    \/ \E t \in Threads, c \in Collectors : DeferBegin(t, c)
    \/ \E t \in Threads : DeferAppend(t)
    \/ \E t \in Threads, k \in 1 .. MaxDepth : Dispose(t, k)
    \/ \E c \in Collectors : CollectorDrop(c)

NextSeq ==
    \/ Next
    \/ \E t \in Threads, c \in Collectors : DirectAdvanceCollect(t, c)

\* The threads use a fresh collector concurrently.
Spec == Init /\ [][Next]_vars

\* The threads use, concurrently, a collector that has seen
\* GC_FREQUENCY - WarmGap pins.
SpecWarm == InitWarm /\ [][Next]_vars

\* One test is run on fresh collectors.
SpecSeq == InitSeq /\ [][NextSeq]_vars

\* The threads use, concurrently, a fresh collector that is not the first
\* one of thread A.
SpecStale == InitStale /\ [][Next]_vars

\* The threads use, concurrently, a collector whose slots are all claimed.
SpecFull == InitFull /\ [][Next]_vars

\* Threads sharing a fresh collector of a build with the feature
\* "statistics".
SpecStats == InitStats /\ [][Next]_vars

\* The same build, in a process where thread A has pinned an earlier
\* collector.
SpecStaleStats == InitStaleStats /\ [][Next]_vars

\* ======================================================= HierarchicalEpoch
\* nexus-memory/src/epoch/hierarchical.rs.  Every atomic load, swap and
\* store of the tree is one step of the calling thread.

RECURSIVE Pow(_, _)
Pow(b, n) == IF n = 0 THEN 1 ELSE b * Pow(b, n - 1)

\* A loop that also grows when the size equals the capacity.
GrowAtEqual(size, cap) == size <= cap

\* compute_depth, line 153: while size < capacity
Grow(size, cap) == size < cap

\* usize values are below Usize.  The program's usize is 64 bits wide, the
\* model's UsizeBits; a power of BRANCHING_FACTOR that reaches the width
\* wraps to 0 in both.
Usize == Pow(2, UsizeBits)

\* The builds of the program: with overflow checks (the dev profile) a usize
\* operation that overflows panics, without them (the release profile) it
\* wraps.
Builds == { "checked", "wrapping" }

\* compute_depth, lines 150-158: the loop, from (depth, size).  It returns
\* the depth, or panics at an overflowing size *= BRANCHING_FACTOR (line
\* 155), or never ends: a size that has wrapped to 0 stays 0 and below the
\* capacity.
RECURSIVE DepthLoop(_, _, _, _)
DepthLoop(d, size, cap, build) ==
    IF ~Grow(size, cap) THEN [ ends |-> "returns", depth |-> d ]
    ELSE IF size * BRANCHING_FACTOR >= Usize /\ build = "checked"
    THEN [ ends |-> "panics", depth |-> d + 1 ]
    ELSE IF size = 0 THEN [ ends |-> "loops", depth |-> d ]
    ELSE DepthLoop(d + 1, (size * BRANCHING_FACTOR) % Usize, cap, build)

\* HierarchicalEpoch::compute_depth
compute_depth(cap, build) ==
    IF cap <= 1 THEN [ ends |-> "returns", depth |-> 1 ]
    ELSE DepthLoop(1, BRANCHING_FACTOR, cap, build)

\* new, lines 125-134: the aggregation levels above a level of level_size
\* nodes, every node INACTIVE, lowest level first.
RECURSIVE LevelsAbove(_)
LevelsAbove(level_size) ==
    IF level_size > 1
    THEN LET n == (level_size + BRANCHING_FACTOR - 1) \div BRANCHING_FACTOR
         IN  << [ i \in 0 .. (n - 1) |-> INACTIVE ] >> \o LevelsAbove(n)
    ELSE << >>

\* new, lines 106-117: how the call goes on after the asserts and
\* compute_depth.
Outcome(cap, build) ==
    IF ~(cap > 0) THEN "panics"
    ELSE LET d == compute_depth(cap, build)
         IN  IF d.ends # "returns" THEN d.ends
             ELSE IF d.depth <= MAX_DEPTH THEN "builds" ELSE "panics"

\* new, lines 106-117: the capacities new accepts.
Accepted(cap, build) == Outcome(cap, build) = "builds"

\* HierarchicalEpoch::new(cap), for an accepted cap.  The levels keep the
\* indices of the program: aggregation[0] is the level above the leaves.
NewTree(cap, build) ==
    LET d == compute_depth(cap, build).depth
        actual_capacity == Pow(BRANCHING_FACTOR, d)
        levels == LevelsAbove(actual_capacity)
    IN  [ local_epochs |-> [ i \in 0 .. (actual_capacity - 1) |-> INACTIVE ],
          aggregation |-> [ l \in 0 .. (Len(levels) - 1) |-> levels[l + 1] ],
          capacity |-> actual_capacity,
          depth |-> d ]

\* The locals of a call on the tree, and what the call returned.
TreeLocals ==
    [ op |-> "none", thread_id |-> 0, epoch |-> 0, level |-> 0, i |-> 0, k |-> 0,
      end |-> 0, min |-> INACTIVE, result |-> 0, lo |-> 0, hi |-> 0 ]

\* The values update_local is called with.
LeafEpochs == (1 .. MaxLeafEpoch) \cup { INACTIVE }

NumLevels == Cardinality(DOMAIN aggregation)

\* The nodes a node of the given level aggregates: the leaves under level 0,
\* the level below otherwise.
Children(level) == IF level = 0 THEN local_epochs ELSE aggregation[level - 1]

\* lines 238-239, 254-257, 276-277, 295-296: the end of the slice of children
\* of node i.
SliceEnd(level, i) ==
    LET start == i * BRANCHING_FACTOR
        len == Cardinality(DOMAIN Children(level))
    IN  IF start + BRANCHING_FACTOR < len THEN start + BRANCHING_FACTOR ELSE len

\* A fold that keeps the larger epoch.
LargerActive(m, e) ==
    IF e = INACTIVE THEN m ELSE IF m = INACTIVE \/ e > m THEN e ELSE m

\* .filter(|&e| e != INACTIVE).min().unwrap_or(INACTIVE), one element at a
\* time: m is the minimum so far, INACTIVE while there is none.
SmallerActive(m, e) ==
    IF e = INACTIVE THEN m ELSE IF m = INACTIVE \/ e < m THEN e ELSE m

\* The number of leaves that are not INACTIVE.
Active(leaves) == Cardinality({ i \in DOMAIN leaves : leaves[i] # INACTIVE })

\* The locals of a call that begins, with the number of active leaves it
\* begins at (lo, hi: the least and the largest number of active leaves
\* there has been since the call began).
Entering(op) ==
    [TreeLocals EXCEPT !.op = op, !.lo = Active(local_epochs),
                       !.hi = Active(local_epochs)]

\* The calls in flight when the leaves become what they are in leaves have
\* seen one more number of active leaves.
Watching(t, leaves) ==
    [ u \in Threads |->
        IF u = t \/ pc[u] = "idle" THEN loc[u]
        ELSE [loc[u] EXCEPT
                !.lo = IF Active(leaves) < @ THEN Active(leaves) ELSE @,
                !.hi = IF Active(leaves) > @ THEN Active(leaves) ELSE @] ]

\* A call on the tree begins: the tree exists, the thread is between calls.
TreeBegin(t) ==
    /\ capacity > 0
    /\ pc[t] = "idle"
    /\ calls_left > 0
    /\ calls_left' = calls_left - 1

\* The locals with which a thread starts on node i of a level.
AtNode(l, level, i) ==
    [l EXCEPT !.level = level, !.i = i, !.k = i * BRANCHING_FACTOR,
              !.end = SliceEnd(level, i), !.min = INACTIVE]

\* ------------------------------------------------------------ new
\* HierarchicalEpoch::new(requested), in either build: the asserts of lines
\* 106 and 112-117 or an overflow check panic, or compute_depth does not
\* return, or the tree is built.
HierNew(t) ==
    /\ capacity = 0
    /\ \A u \in Threads : pc[u] = "idle"
    /\ \E build \in Builds :
          IF Accepted(requested, build)
          THEN /\ local_epochs' = NewTree(requested, build).local_epochs
               /\ aggregation' = NewTree(requested, build).aggregation
               /\ capacity' = NewTree(requested, build).capacity
               /\ depth' = NewTree(requested, build).depth
               /\ UNCHANGED pc
          ELSE /\ pc' = [pc EXCEPT ![t] =
                           IF Outcome(requested, build) = "loops"
                           THEN "looping" ELSE "panicked"]
               /\ UNCHANGED << local_epochs, aggregation, capacity, depth >>
    /\ UNCHANGED << requested, calls_left, loc, colvars, libvars >>

\* --------------------------------------------------------- update_local
\* A swap that lands in leaf 0.
SwappedFirst(leaves, thread_id, epoch) == [leaves EXCEPT ![0] = epoch]

\* update_local, line 179: self.local_epochs[thread_id].swap(epoch, SeqCst)
Swapped(leaves, thread_id, epoch) == [leaves EXCEPT ![thread_id] = epoch]

\* update_local, lines 177-184: the assert, the swap of the leaf, and the
\* entry into propagate_from if the epoch changed (lines 229-239).
UpdateLocal(t, thread_id, epoch) ==
    /\ TreeBegin(t)
    /\ LET l == [Entering("update_local") EXCEPT !.thread_id = thread_id,
                                                 !.epoch = epoch]
           leaves == Swapped(local_epochs, thread_id, epoch)
       IN
       IF ~(thread_id < capacity)
       THEN \* assert!(thread_id < self.capacity, "Thread ID out of range")
            /\ pc' = [pc EXCEPT ![t] = "panicked"]
            /\ loc' = [loc EXCEPT ![t] = l]
            /\ UNCHANGED local_epochs
       ELSE /\ local_epochs' = leaves
            /\ IF local_epochs[thread_id] # epoch /\ NumLevels > 0
               THEN /\ pc' = [pc EXCEPT ![t] = "prop_load"]
                    /\ loc' = [Watching(t, leaves) EXCEPT
                                 ![t] = AtNode(l, 0, thread_id \div BRANCHING_FACTOR)]
               ELSE /\ pc' = [pc EXCEPT ![t] = "idle"]
                    /\ loc' = [Watching(t, leaves) EXCEPT ![t] = l]
    /\ UNCHANGED << aggregation, capacity, depth, requested, colvars, libvars >>

\* local_epoch, lines 190-191: the assert and the load of the leaf.
LocalEpoch(t, thread_id) ==
    /\ TreeBegin(t)
    /\ LET l == [Entering("local_epoch") EXCEPT !.thread_id = thread_id]
       IN
       IF ~(thread_id < capacity)
       THEN \* assert!(thread_id < self.capacity, "Thread ID out of range")
            /\ pc' = [pc EXCEPT ![t] = "panicked"]
            /\ loc' = [loc EXCEPT ![t] = l]
       ELSE /\ loc' = [loc EXCEPT ![t] = [l EXCEPT !.result = local_epochs[thread_id]]]
            /\ UNCHANGED pc
    /\ UNCHANGED << local_epochs, aggregation, capacity, depth, requested, colvars, libvars >>

\* propagate_from, lines 241-246 and 259-264: one load of the slice.
PropLoad(t) ==
    /\ pc[t] = "prop_load"
    /\ LET l == loc[t] IN
       /\ loc' = [loc EXCEPT ![t].min = SmallerActive(l.min, Children(l.level)[l.k]),
                             ![t].k = l.k + 1]
       /\ pc' = [pc EXCEPT ![t] = IF l.k + 1 = l.end THEN "prop_store" ELSE "prop_load"]
    /\ UNCHANGED << treevars, colvars, libvars >>

\* propagate_from, lines 248-249 and 266-267: store the minimum into the
\* parent and go up a level, or return from update_local.
PropStore(t) ==
    /\ pc[t] = "prop_store"
    /\ LET l == loc[t] IN
       /\ aggregation' = [aggregation EXCEPT ![l.level][l.i] = l.min]
       /\ IF l.level + 1 < NumLevels
          THEN /\ pc' = [pc EXCEPT ![t] = "prop_load"]
               /\ loc' = [loc EXCEPT ![t] =
                            AtNode(l, l.level + 1, l.i \div BRANCHING_FACTOR)]
          ELSE /\ pc' = [pc EXCEPT ![t] = "idle"]
               /\ UNCHANGED loc
    /\ UNCHANGED << local_epochs, capacity, depth, requested, calls_left, colvars, libvars >>

\* ------------------------------------------- global_minimum, can_reclaim
\* aggregate_all begins (line 272), or there is no level to aggregate.
Aggregate(t, l) ==
    /\ pc' = [pc EXCEPT ![t] = IF NumLevels > 0 THEN "agg_load" ELSE "root_load"]
    /\ loc' = [loc EXCEPT ![t] = IF NumLevels > 0 THEN AtNode(l, 0, 0) ELSE l]

\* global_minimum, lines 204-206
GlobalMinimum(t) ==
    /\ TreeBegin(t)
    /\ Aggregate(t, Entering("global_minimum"))
    /\ UNCHANGED << local_epochs, aggregation, capacity, depth, requested, colvars, libvars >>

\* can_reclaim, lines 222-223
CanReclaim(t, epoch) ==
    /\ TreeBegin(t)
    /\ Aggregate(t, [Entering("can_reclaim") EXCEPT !.epoch = epoch])
    /\ UNCHANGED << local_epochs, aggregation, capacity, depth, requested, colvars, libvars >>

\* aggregate_all, lines 279-284 and 298-303: one load of the slice.
AggLoad(t) ==
    /\ pc[t] = "agg_load"
    /\ LET l == loc[t] IN
       /\ loc' = [loc EXCEPT ![t].min = SmallerActive(l.min, Children(l.level)[l.k]),
                             ![t].k = l.k + 1]
       /\ pc' = [pc EXCEPT ![t] = IF l.k + 1 = l.end THEN "agg_store" ELSE "agg_load"]
    /\ UNCHANGED << treevars, colvars, libvars >>

\* aggregate_all, lines 286 and 305: store the minimum into node i, then the
\* next node of the level, the next level, or the end of aggregate_all.
AggStore(t) ==
    /\ pc[t] = "agg_store"
    /\ LET l == loc[t]
           last == Cardinality(DOMAIN aggregation[l.level]) - 1
       IN
       /\ aggregation' = [aggregation EXCEPT ![l.level][l.i] = l.min]
       /\ IF l.i < last
          THEN /\ pc' = [pc EXCEPT ![t] = "agg_load"]
               /\ loc' = [loc EXCEPT ![t] = AtNode(l, l.level, l.i + 1)]
          ELSE IF l.level + 1 < NumLevels
          THEN /\ pc' = [pc EXCEPT ![t] = "agg_load"]
               /\ loc' = [loc EXCEPT ![t] = AtNode(l, l.level + 1, 0)]
          ELSE /\ pc' = [pc EXCEPT ![t] = "root_load"]
               /\ UNCHANGED loc
    /\ UNCHANGED << local_epochs, capacity, depth, requested, calls_left, colvars, libvars >>

\* A test that also holds when the minimum equals the epoch.
ReclaimableAtEqual(min, epoch) == min # INACTIVE /\ min >= epoch

\* can_reclaim, line 224: min != INACTIVE && min > epoch
Reclaimable(min, epoch) == min # INACTIVE /\ min > epoch

\* global_minimum, lines 208-214: the load of the root (of leaf 0 if there
\* is no level); the call returns, through can_reclaim (line 224) if that
\* is what was called.
RootLoad(t) ==
    /\ pc[t] = "root_load"
    /\ LET root == IF NumLevels = 0 THEN local_epochs[0]
                   ELSE aggregation[NumLevels - 1][0]
       IN  loc' = [loc EXCEPT ![t].result =
                     IF loc[t].op = "can_reclaim"
                     THEN Reclaimable(root, loc[t].epoch) ELSE root]
    /\ pc' = [pc EXCEPT ![t] = "idle"]
    /\ UNCHANGED << treevars, colvars, libvars >>

\* --------------------------------------------------------- active_count
\* active_count, line 324: the iteration over local_epochs begins.
ActiveCount(t) ==
    /\ TreeBegin(t)
    /\ loc' = [loc EXCEPT ![t] = Entering("active_count")]
    /\ pc' = [pc EXCEPT ![t] = "count_load"]
    /\ UNCHANGED << local_epochs, aggregation, capacity, depth, requested, colvars, libvars >>

\* A filter that keeps the leaves that are INACTIVE.
CountedInactive(e) == e = INACTIVE

\* active_count, line 325: .filter(|e| e.load(Relaxed) != INACTIVE)
Counted(e) == e # INACTIVE

\* active_count, lines 324-326: one load of a leaf; after the last, the
\* count is returned.
CountLoad(t) ==
    /\ pc[t] = "count_load"
    /\ LET l == loc[t] IN
       /\ loc' = [loc EXCEPT ![t].result = IF Counted(local_epochs[l.k]) THEN @ + 1 ELSE @,
                             ![t].k = l.k + 1]
       /\ pc' = [pc EXCEPT ![t] = IF l.k + 1 = Cardinality(DOMAIN local_epochs)
                                  THEN "idle" ELSE "count_load"]
    /\ UNCHANGED << treevars, colvars, libvars >>

\* ------------------------------------------------------------------ Next
NextNew == \E t \in Threads : HierNew(t)

NextTree ==
    \/ \E t \in Threads, i \in 0 .. MaxThreadId, e \in LeafEpochs : UpdateLocal(t, i, e)
    \/ \E t \in Threads, i \in 0 .. MaxThreadId : LocalEpoch(t, i)
    \/ \E t \in Threads : PropLoad(t)
    \/ \E t \in Threads : PropStore(t)
    \/ \E t \in Threads : GlobalMinimum(t)
    \/ \E t \in Threads, e \in 0 .. MaxLeafEpoch : CanReclaim(t, e)
    \/ \E t \in Threads : AggLoad(t)
    \/ \E t \in Threads : AggStore(t)
    \/ \E t \in Threads : RootLoad(t)
    \/ \E t \in Threads : ActiveCount(t)
    \/ \E t \in Threads : CountLoad(t)

\* The calls of one thread, one after the other.
NextTreeSeq ==
    \/ \E i \in 0 .. MaxThreadId, e \in LeafEpochs : UpdateLocal(A, i, e)
    \/ \E i \in 0 .. MaxThreadId : LocalEpoch(A, i)
    \/ PropLoad(A)
    \/ PropStore(A)
    \/ GlobalMinimum(A)
    \/ \E e \in 0 .. MaxLeafEpoch : CanReclaim(A, e)
    \/ AggLoad(A)
    \/ AggStore(A)
    \/ RootLoad(A)
    \/ ActiveCount(A)
    \/ CountLoad(A)

\* No collector is in use.
NoCollector ==
    /\ collectors = {}
    /\ global_epoch = NewEpoch
    /\ participants = NewParticipants
    /\ num_participants = [ c \in Collectors |-> 0 ]
    /\ garbage = NewGarbage
    /\ ops_since_gc = [ c \in Collectors |-> 0 ]
    /\ dropped = [ c \in Collectors |-> FALSE ]
    /\ idx = [ t \in Threads |-> 0 ]
    /\ guards = [ t \in Threads |-> << >> ]
    /\ retired = << >>
    /\ test = NoTest
    /\ advanced = [ c \in Collectors |-> 0 ]
    /\ stats = NoStats /\ events = NoStats

\* The capacities new is called with: the small ones, and the largest ones
\* a usize holds.
Requests == (0 .. MaxRequest) \cup ((Usize - MaxRequest) .. (Usize - 1))

\* HierarchicalEpoch::new is about to be called with some capacity.
InitNew ==
    /\ NoCollector
    /\ NoLibraries
    /\ NoTree
    /\ calls_left = 0
    /\ requested \in Requests
    /\ pc = [ t \in Threads |-> "idle" ]
    /\ loc = [ t \in Threads |-> TreeLocals ]

\* The tree HierarchicalEpoch::new(TreeRequest) returns, with calls to make.
FreshTree(calls) ==
    /\ NoCollector
    /\ NoLibraries
    /\ calls_left = calls
    /\ requested = TreeRequest
    /\ \E build \in Builds :
          /\ local_epochs = NewTree(TreeRequest, build).local_epochs
          /\ aggregation = NewTree(TreeRequest, build).aggregation
          /\ capacity = NewTree(TreeRequest, build).capacity
          /\ depth = NewTree(TreeRequest, build).depth
    /\ pc = [ t \in Threads |-> "idle" ]
    /\ loc = [ t \in Threads |-> TreeLocals ]

\* A tree is constructed.
SpecNew == InitNew /\ [][NextNew]_vars

InitTree == FreshTree(MaxRacing)

InitTreeSeq == FreshTree(MaxTreeCalls)

\* The threads use a tree concurrently, for MaxRacing calls.
SpecTree == InitTree /\ [][NextTree]_vars

\* Thread A updates leaves while thread B makes calls of any kind.
NextTreeRace ==
    \/ \E t \in Threads, i \in 0 .. MaxThreadId, e \in LeafEpochs : UpdateLocal(t, i, e)
    \/ \E t \in Threads : PropLoad(t)
    \/ \E t \in Threads : PropStore(t)
    \/ \E i \in 0 .. MaxThreadId : LocalEpoch(B, i)
    \/ GlobalMinimum(B)
    \/ \E e \in 0 .. MaxLeafEpoch : CanReclaim(B, e)
    \/ AggLoad(B)
    \/ AggStore(B)
    \/ RootLoad(B)
    \/ ActiveCount(B)
    \/ CountLoad(B)

InitTreeRace == FreshTree(MaxRacing + 1)

\* A writer and a thread that writes and reads, for one call more than
\* MaxRacing.
SpecTreeRace == InitTreeRace /\ [][NextTreeRace]_vars

\* One thread uses a tree, for MaxTreeCalls calls.
SpecTreeSeq == InitTreeSeq /\ [][NextTreeSeq]_vars


\* ===================================================================
\* The benchmark's collectors: baselines/crossbeam-comparison.rs
\* ===================================================================
\* FlatEpochCollector and HierarchicalEpochCollector are driven by one thread,
\* call after call, each call made on both.  global_epoch, the slots and
\* num_participants are AtomicU64; a run stays far below their width.

\* crossbeam_baseline::MAX_PARTICIPANTS and nexus_baseline::MAX_PARTICIPANTS
MAX_PARTICIPANTS == 256
Level1Nodes == 64
Level2Nodes == 16
Level3Nodes == 4

Returns(value) == [ ends |-> "returns", value |-> value ]
\* A call that panics returns nothing.
Panics == [ ends |-> "panics", value |-> 0 ]

\* FlatEpochCollector::new
NewFlat ==
    [ global_epoch |-> 0,
      participants |-> [ i \in 0 .. MAX_PARTICIPANTS - 1 |-> INACTIVE ],
      num_participants |-> 0 ]

\* HierarchicalEpochCollector::new
NewHier ==
    [ global_epoch |-> 0,
      local_epochs |-> [ i \in 0 .. MAX_PARTICIPANTS - 1 |-> INACTIVE ],
      level1 |-> [ i \in 0 .. Level1Nodes - 1 |-> INACTIVE ],
      level2 |-> [ i \in 0 .. Level2Nodes - 1 |-> INACTIVE ],
      level3 |-> [ i \in 0 .. Level3Nodes - 1 |-> INACTIVE ],
      num_participants |-> 0 ]

\* .filter(|&e| e != INACTIVE).min().unwrap_or(INACTIVE)
MinActive(epochs) ==
    LET active == { e \in epochs : e # INACTIVE }
    IN  IF active = {} THEN INACTIVE
        ELSE CHOOSE e \in active : \A o \in active : e <= o

\* The epochs of the BRANCHING_FACTOR nodes from start that the array has.
Group(nodes, start, len) ==
    { nodes[i] : i \in { j \in start .. start + BRANCHING_FACTOR - 1 : j < len } }

\* FlatEpochCollector::register and HierarchicalEpochCollector::register:
\* the count has grown when the assertion fails.
Registers(col) ==
    LET id == col.num_participants
    IN  [ col |-> [ col EXCEPT !.num_participants = id + 1 ],
          ret |-> IF id < MAX_PARTICIPANTS THEN Returns(id) ELSE Panics ]

\* FlatEpochCollector::pin
FlatPin(f, participant_id) ==
    LET epoch == f.global_epoch
    IN  [ col |-> [ f EXCEPT !.participants[participant_id] = epoch ],
          ret |-> Returns(epoch) ]

\* FlatEpochCollector::unpin
FlatUnpin(f, participant_id) ==
    [ col |-> [ f EXCEPT !.participants[participant_id] = INACTIVE ],
      ret |-> Returns(0) ]

\* FlatEpochCollector::try_advance, line 104
FlatBehind(p_epoch, current) == p_epoch # INACTIVE /\ p_epoch < current

\* FlatEpochCollector::try_advance.  The scan runs over 0 .. num_parts - 1 in
\* order: it returns false at the first participant behind, and indexes the
\* array out of bounds when it gets to MAX_PARTICIPANTS.  With one thread
\* the compare_exchange finds the epoch it loaded.
FlatTryAdvance(f) ==
    LET current == f.global_epoch
        num_parts == f.num_participants
        scanned == { i \in 0 .. num_parts - 1 : i < MAX_PARTICIPANTS }
    IN  IF \E i \in scanned : FlatBehind(f.participants[i], current)
        THEN [ col |-> f, ret |-> Returns(FALSE) ]
        ELSE IF num_parts > MAX_PARTICIPANTS
        THEN [ col |-> f, ret |-> Panics ]
        ELSE [ col |-> [ f EXCEPT !.global_epoch = current + 1 ],
               ret |-> Returns(TRUE) ]

\* HierarchicalEpochCollector::propagate_up
propagate_up(h, participant_id) ==
    LET l1_idx == participant_id \div BRANCHING_FACTOR
        l1_min == MinActive(Group(h.local_epochs, l1_idx * BRANCHING_FACTOR, MAX_PARTICIPANTS))
        h1 == [ h EXCEPT !.level1[l1_idx] = l1_min ]
        l2_idx == l1_idx \div BRANCHING_FACTOR
        l2_min == MinActive(Group(h1.level1, l2_idx * BRANCHING_FACTOR, Level1Nodes))
        h2 == [ h1 EXCEPT !.level2[l2_idx] = l2_min ]
        l3_idx == l2_idx \div BRANCHING_FACTOR
        l3_min == MinActive(Group(h2.level2, l3_idx * BRANCHING_FACTOR, Level2Nodes))
    IN  [ h2 EXCEPT !.level3[l3_idx] = l3_min ]

\* HierarchicalEpochCollector::pin
HierPin(h, participant_id) ==
    LET epoch == h.global_epoch
    IN  [ col |-> propagate_up([ h EXCEPT !.local_epochs[participant_id] = epoch ],
                               participant_id),
          ret |-> Returns(epoch) ]

\* HierarchicalEpochCollector::unpin
HierUnpin(h, participant_id) ==
    [ col |-> propagate_up([ h EXCEPT !.local_epochs[participant_id] = INACTIVE ],
                           participant_id),
      ret |-> Returns(0) ]

\* HierarchicalEpochCollector::try_advance, line 220
HierBehind(global_min, current) == global_min # INACTIVE /\ global_min < current

\* HierarchicalEpochCollector::try_advance
HierTryAdvance(h) ==
    LET current == h.global_epoch
        global_min == MinActive({ h.level3[i] : i \in 0 .. Level3Nodes - 1 })
    IN  IF HierBehind(global_min, current)
        THEN [ col |-> h, ret |-> Returns(FALSE) ]
        ELSE [ col |-> [ h EXCEPT !.global_epoch = current + 1 ],
               ret |-> Returns(TRUE) ]

\* ------------------------------------------------------------ the calls
\* The ids a run pins and unpins: two in one leaf group, one more in the
\* same level-1 group, one more in the same level-2 group, and the last
\* id, in another level-3 node.
BenchIds == { 0, 1, 4, 16, MAX_PARTICIPANTS - 1 }

\* The ids register has returned.
Registered(col) ==
    { id \in BenchIds : id < col.num_participants /\ id < MAX_PARTICIPANTS }

BenchFrame == UNCHANGED << colvars, treevars, engine, pc, loc >>

BenchRegister ==
    /\ flat # << >>
    /\ flat.num_participants < MAX_PARTICIPANTS + MaxOverflow
    /\ flat' = Registers(flat).col
    /\ hier' = Registers(hier).col
    /\ returned' = [ call |-> "register",
                     flat |-> Registers(flat).ret, hier |-> Registers(hier).ret ]
    /\ BenchFrame

BenchPin(id) ==
    /\ flat # << >>
    /\ id \in Registered(flat) \cap Registered(hier)
    /\ flat' = FlatPin(flat, id).col
    /\ hier' = HierPin(hier, id).col
    /\ returned' = [ call |-> "pin",
                     flat |-> FlatPin(flat, id).ret, hier |-> HierPin(hier, id).ret ]
    /\ BenchFrame

BenchUnpin(id) ==
    /\ flat # << >>
    /\ id \in Registered(flat) \cap Registered(hier)
    /\ flat' = FlatUnpin(flat, id).col
    /\ hier' = HierUnpin(hier, id).col
    /\ returned' = [ call |-> "unpin",
                     flat |-> FlatUnpin(flat, id).ret, hier |-> HierUnpin(hier, id).ret ]
    /\ BenchFrame

BenchTryAdvance ==
    /\ flat # << >>
    /\ flat.global_epoch < MaxBenchEpoch /\ hier.global_epoch < MaxBenchEpoch
    /\ flat' = FlatTryAdvance(flat).col
    /\ hier' = HierTryAdvance(hier).col
    /\ returned' = [ call |-> "try_advance",
                     flat |-> FlatTryAdvance(flat).ret, hier |-> HierTryAdvance(hier).ret ]
    /\ BenchFrame

NextBench ==
    \/ BenchRegister
    \/ \E id \in BenchIds : BenchPin(id)
    \/ \E id \in BenchIds : BenchUnpin(id)
    \/ BenchTryAdvance

\* The two collectors after construction, or after a number of register
\* calls that have returned.
InitBench ==
    /\ NoCollector
    /\ NoTree
    /\ requested = 0 /\ calls_left = 0
    /\ pc = [ t \in Threads |-> "idle" ]
    /\ loc = [ t \in Threads |-> NoLocals ]
    /\ engine = << >>
    /\ \E n \in { 0, MAX_PARTICIPANTS - 1 } :
          /\ flat = [ NewFlat EXCEPT !.num_participants = n ]
          /\ hier = [ NewHier EXCEPT !.num_participants = n ]
    /\ returned = [ call |-> "new", flat |-> Returns(0), hier |-> Returns(0) ]

\* One thread drives the two collectors.
SpecBench == InitBench /\ [][NextBench]_vars

\* ===================================================================
\* The verification engine: nexus-verification/src/lib.rs
\* ===================================================================
\* The properties an engine is given and the states it verifies are drawn
\* from small sets; the products of the checks stay far below the width of a
\* usize.

\* BoundedGarbage::check: "4 epoch window"
EpochWindow == 4
\* EventualReclamation::check: "heuristic bound"
Heuristic == 1000

\* The properties of the crate, with their fields.
Properties ==
    { [ name |-> "NoUseAfterFree" ], [ name |-> "NoDoubleFree" ] }
    \cup { [ name |-> "EventualReclamation", max_epochs |-> m ] : m \in 0 .. MaxPerThread }
    \cup { [ name |-> "BoundedGarbage", per_thread_bound |-> b ] : b \in 0 .. MaxPerThread }

\* The states of a VerifiableState such as the tests' MockState.
MockStates ==
    [ epoch : { 0, MaxEpoch }, threads : 0 .. MaxMockThreads, garbage : 0 .. MaxGarbage ]

\* Property::check of the four properties
check(property, state) ==
    CASE property.name = "NoUseAfterFree" -> TRUE
      [] property.name = "NoDoubleFree" -> TRUE
      [] property.name = "EventualReclamation" ->
            LET threads == state.threads
                garbage_count == state.garbage
                max_garbage == threads * property.max_epochs * Heuristic
            IN  garbage_count <= max_garbage
      [] property.name = "BoundedGarbage" ->
            LET threads == state.threads
                garbage_count == state.garbage
                bound == threads * property.per_thread_bound * EpochWindow
            IN  garbage_count <= bound

\* PropertyBox::check_any of the blanket impl: "always returns true for
\* simplicity"
check_any(property, state) == TRUE

\* VerificationStats::default
NewVerificationStats ==
    [ properties_checked |-> 0, states_explored |-> 0, violations_found |-> 0 ]

\* VerificationEngine::new
NewEngine == [ properties |-> << >>, stats |-> NewVerificationStats ]

\* The witness verify pushes for one property.
ProofWitness(property, verified) ==
    [ property |-> property.name, method |-> "RuntimeVerification", verified |-> verified ]

\* VerificationEngine::verify: the witnesses it returns.
Witnesses(e, state) ==
    [ i \in 1 .. Len(e.properties) |->
        ProofWitness(e.properties[i], check_any(e.properties[i], state)) ]

Unverified(witnesses) == { i \in 1 .. Len(witnesses) : ~witnesses[i].verified }

\* VerificationEngine::verify: the counters after the loop.
Verified(e, state) ==
    [ e EXCEPT !.stats.properties_checked = @ + Len(e.properties),
               !.stats.violations_found = @ + Cardinality(Unverified(Witnesses(e, state))) ]

EngineFrame == UNCHANGED << colvars, treevars, flat, hier, pc, loc >>

\* VerificationEngine::add_property
AddProperty(property) ==
    /\ engine # << >>
    /\ Len(engine.properties) < MaxProperties
    /\ engine' = [ engine EXCEPT !.properties = Append(@, property) ]
    /\ returned' = [ call |-> "add_property" ]
    /\ EngineFrame

\* VerificationEngine::verify
Verify(state) ==
    /\ engine # << >>
    /\ engine.stats.properties_checked + Len(engine.properties) <= MaxChecked
    /\ engine' = Verified(engine, state)
    /\ returned' = [ call |-> "verify", state |-> state,
                     ends |-> "Ok", witnesses |-> Witnesses(engine, state) ]
    /\ EngineFrame

NextEngine ==
    \/ \E property \in Properties : AddProperty(property)
    \/ \E state \in MockStates : Verify(state)

\* A new engine.
InitEngine ==
    /\ NoCollector
    /\ NoTree
    /\ requested = 0 /\ calls_left = 0
    /\ pc = [ t \in Threads |-> "idle" ]
    /\ loc = [ t \in Threads |-> NoLocals ]
    /\ flat = << >> /\ hier = << >>
    /\ engine = NewEngine
    /\ returned = [ call |-> "new" ]

\* One engine is given properties and verifies states.
SpecEngine == InitEngine /\ [][NextEngine]_vars
\* ---------------------------------------------------------------- claims
\* Retirement r had its destructor run in this step, by try_advance_and_collect
\* (not by the collector's drop).
Reclaimed(r) == ~dropped'[retired[r].c] /\ retired'[r].runs > retired[r].runs

\* Every call has returned.
Quiet == \A t \in Threads : pc[t] = "idle"

\* The test s has run its first n calls to completion.
After(s, n) == test.script = s /\ test.pos = n + 1 /\ Quiet

C2_GuardProtection ==
    [][ \A r \in DOMAIN retired : Reclaimed(r) => retired[r].wit = {} ]_vars

\* C3: grace period.  While a guard taken at epoch e is held, no advance makes
\* the global epoch exceed e + 1.
C3_GracePeriod ==
    [][ \A c \in Collectors : global_epoch'[c] # global_epoch[c] =>
          \A t \in Threads : \A k \in 1 .. Len(guards[t]) :
              guards[t][k].c = c => global_epoch'[c] <= guards[t][k].epoch + 1 ]_vars

C5_Monotone ==
    /\ \A c \in Collectors : global_epoch[c] = 0
    /\ [][ \A c \in Collectors : global_epoch'[c] # global_epoch[c] =>
             /\ global_epoch'[c] = global_epoch[c] + 1
             /\ \E t \in Threads :
                   pc[t] = "adv_cas" /\ loc[t].c = c /\ pc'[t] # "adv_cas" ]_vars

\* The epoch has advanced twice.
C5_Witness == global_epoch[Col1] = 2

\* C6: when try_advance_and_collect is about to drain bag (e' - 2) mod 4, no
\* slot in use observes an epoch at or below e' - 2.
C6_NobodyInOldEpoch ==
    \A t \in Threads : pc[t] = "col_drain" =>
        \A s \in Slots :
            LET p == participants[loc[t].c][s] IN
            p.active = 1 /\ p.epoch # INACTIVE => p.epoch > loc[t].current - 2

\* C7: scenario S2.  The three try_advance calls return true, false, true and
\* leave the global epoch at 1, 1 and 2.
C7_PinnedBlocksAdvance ==
    /\ After(S2, 1) => global_epoch[Col1] = 0 /\ participants[Col1][idx[A]].epoch = 0
    /\ After(S2, 2) => test.results = << TRUE >> /\ global_epoch[Col1] = 1
    /\ After(S2, 3) => test.results = << TRUE, FALSE >> /\ global_epoch[Col1] = 1
    /\ After(S2, 5) => test.results = << TRUE, FALSE, TRUE >> /\ global_epoch[Col1] = 2

\* C8: re-entrant pin.  Between calls, a thread's pin_count is the number of
\* its live guards and its slot's epoch is the one its oldest live guard
\* recorded.
C8_ReentrantPin ==
    \A t \in Threads : pc[t] = "idle" /\ idx[t] # 0 =>
        /\ participants[Col1][idx[t]].pin_count = Len(guards[t])
        /\ guards[t] # << >> => participants[Col1][idx[t]].epoch = guards[t][1].epoch

\* C9: scenario S6.  With G1 and G2 held the advance 0 -> 1 succeeds; after
\* G1 is disposed the slot still shows epoch 0 and the advance fails; after G2
\* is disposed the slot is INACTIVE and the advance succeeds.
C9_NestedPin ==
    /\ After(S6, 3) => test.results = << TRUE >> /\ global_epoch[Col1] = 1
    /\ After(S6, 4) => participants[Col1][idx[A]].epoch = 0
    /\ After(S6, 5) => test.results = << TRUE, FALSE >>
    /\ After(S6, 6) => participants[Col1][idx[A]].epoch = INACTIVE
    /\ After(S6, 7) => test.results = << TRUE, FALSE, TRUE >>

\* C10: scenario S3.  R is deferred at epoch 0 into bag 0; the first
\* try_advance_and_collect (0 -> 1) does not run its destructor, the second
\* (1 -> 2) runs it once.
C10_TwoEpochGrace ==
    /\ After(S3, 2) => retired[1].epoch = 0 /\ garbage[Col1][0] = << 1 >>
    /\ After(S3, 4) => global_epoch[Col1] = 1 /\ retired[1].runs = 0
    /\ After(S3, 5) => global_epoch[Col1] = 2 /\ retired[1].runs = 1

\* Some slot in use of collector c is pinned at an epoch below e.
Lagging(c, e) ==
    \E s \in Slots :
        /\ participants[c][s].active = 1
        /\ participants[c][s].epoch # INACTIVE
        /\ participants[c][s].epoch < e

\* C11: sequential try_advance.  A try_advance that nothing overlaps, called
\* at global epoch e, returns false and leaves the epoch at e exactly when
\* some slot in use is pinned below e; otherwise it returns true and the
\* epoch becomes e + 1.  On a fresh collector four calls in a row return true
\* and leave the epoch at 4 (S1).
C11_SequentialAdvance ==
    /\ [][ \A t \in Threads :
             pc[t] \in { "adv_scan", "adv_cas" } /\ loc[t].ctx = "public"
                 /\ pc'[t] = "idle" =>
             LET c == loc[t].c
                 e == global_epoch[c]
             IN  /\ test'.results = Append(test.results, ~Lagging(c, e))
                 /\ global_epoch'[c] = IF Lagging(c, e) THEN e ELSE e + 1 ]_vars
    /\ [](After(S1, 4) => /\ test.results = << TRUE, TRUE, TRUE, TRUE >>
                          /\ global_epoch[Col1] = 4)

\* A test has seen try_advance refuse and, later, succeed.
C11_Witness ==
    Quiet /\ \E j \in 1 .. Len(test.results) :
                ~test.results[j] /\ \E k \in (j + 1) .. Len(test.results) : test.results[k]

\* Thread t holds a guard of collector c, or is in a pin of c past the
\* slot allocation.
Uses(t, c) ==
    \/ \E k \in 1 .. Len(guards[t]) : guards[t][k].c = c
    \/ pc[t] \in { "pin_load", "pin_store", "pin_count", "pin_ops" } /\ loc[t].c = c

\* C12: slot ownership.  Two distinct threads never use the same slot of the
\* same collector, and a thread keeps the slot index it has.
C12_SlotOwnership ==
    /\ [](\A c \in Collectors : \A t \in Threads : \A u \in Threads \ {t} :
              Uses(t, c) /\ Uses(u, c) => idx[t] # idx[u])
    /\ [][ \A t \in Threads : idx[t] # 0 => idx'[t] = idx[t] ]_vars

\* C13: no bag is drained while a defer is between its load of the global
\* epoch and its append to that bag.
C13_NoDrainDuringDefer ==
    \A t \in Threads : \A u \in Threads \ {t} :
        pc[t] = "col_drain" /\ pc[u] = "def_append" /\ loc[t].c = loc[u].c
            => OldBag(loc[t].current) # DeferBag(loc[u].epoch)

\* C14: the bags are single-writer.  No two threads are appending to the
\* same bag at the same time, and no two threads are draining the same bag
\* at the same time.
C14_SingleWriter ==
    \A t \in Threads : \A u \in Threads \ {t} :
        loc[t].c = loc[u].c =>
            /\ ~ ( /\ pc[t] = "def_append" /\ pc[u] = "def_append"
                   /\ DeferBag(loc[t].epoch) = DeferBag(loc[u].epoch) )
            /\ ~ ( /\ pc[t] = "col_drain" /\ pc[u] = "col_drain"
                   /\ OldBag(loc[t].current) = OldBag(loc[u].current) )

\* C15: ring reuse.  Whenever the global epoch advances to g, bag g mod 4 is
\* empty.
C15_RingReuse ==
    [][ \A c \in Collectors : global_epoch'[c] # global_epoch[c] =>
          garbage[c][global_epoch'[c] % 4] = << >> ]_vars

Deferred(r) == r \in DOMAIN retired /\ \A t \in Threads : loc[t].r # r

C18_EpochAdvanced ==
    \A c \in Collectors :
        Quiet /\ ops_since_gc[c] > 0 /\ (\A t \in Threads : guards[t] = << >>)
            => global_epoch[c] > 0

\* Both threads have pinned, every guard is disposed of, every call returned.
C18_Witness ==
    /\ Quiet
    /\ \A t \in Threads : guards[t] = << >> /\ idx[t] # 0
    /\ ops_since_gc[Col1] >= Cardinality(Threads)
    /\ global_epoch[Col1] > 0

\* The retirements of collector c whose destructor has not run.
Pending(c) == { r \in DOMAIN retired : retired[r].c = c /\ retired[r].runs = 0 }

\* The most defers one thread has issued on collector c within one epoch.
PerThreadPerEpoch(c) ==
    LET counts == { Cardinality({ r \in DOMAIN retired :
                                    /\ retired[r].c = c
                                    /\ retired[r].by = t
                                    /\ retired[r].epoch = e }) :
                    t \in Threads, e \in 0 .. EpochCap }
    IN  CHOOSE m \in counts : \A n \in counts : n <= m

AllInUse(c) == \A s \in Slots : participants[c][s].active = 1

\* C20: slot exhaustion is fatal.  With every slot in use, a first pin goes
\* through the slots and panics: it returns no guard, and its steps change
\* no slot, no bag and no global epoch.
C20_ExhaustionPanics ==
    /\ [][ \A t \in Threads : pc[t] = "alloc" /\ AllInUse(loc[t].c) =>
             /\ pc'[t] \in { "alloc", "panicked" }
             /\ pc'[t] = "panicked" => loc[t].i > NumSlots
             /\ pc'[t] # pc[t] \/ loc'[t] # loc[t] =>
                  /\ participants' = participants
                  /\ garbage' = garbage
                  /\ global_epoch' = global_epoch
                  /\ guards' = guards ]_vars
    /\ [](\A t \in Threads : pc[t] = "panicked" => guards[t] = << >>)

\* A first pin has panicked.
C20_Witness == \E t \in Threads : pc[t] = "panicked"

\* ------------------------------------------------------ claims on the tree
\* The minimum of the values of f that are not INACTIVE; INACTIVE if none.
ActiveMin(f) ==
    LET act == { f[i] : i \in DOMAIN f } \ { INACTIVE }
    IN  IF act = {} THEN INACTIVE ELSE CHOOSE m \in act : \A n \in act : m <= n

\* The node global_minimum reads.
Root == aggregation[NumLevels - 1][0]

\* The children of node i of a level.
Slice(level, i) ==
    [ k \in (i * BRANCHING_FACTOR) .. (SliceEnd(level, i) - 1) |-> Children(level)[k] ]

\* No update_local is between its swap and the end of its propagation.
Propagated == \A t \in Threads : pc[t] \notin { "prop_load", "prop_store" }

\* C21: tree safety under races.  With concurrent update_local and
\* global_minimum calls, whenever no update is still propagating the root is
\* at most the minimum of the leaves that are not INACTIVE; in particular it
\* is not INACTIVE while a leaf is active.
C21_RootLowerBound == Propagated => Root <= ActiveMin(local_epochs)

\* C22: tree consistency at quiescence.  Once every call has returned, every
\* internal node is the minimum of its children that are not INACTIVE, and
\* INACTIVE if it has none.
C22_QuiescentConsistency ==
    Quiet =>
        \A level \in DOMAIN aggregation : \A i \in DOMAIN aggregation[level] :
            aggregation[level][i] = ActiveMin(Slice(level, i))

\* C23: sequential global_minimum.  After any sequence of update_local
\* calls, global_minimum returns the minimum of the leaves that are not
\* INACTIVE, and INACTIVE if every leaf is.
C23_SequentialMinimum ==
    [][ \A t \in Threads :
          pc[t] = "root_load" /\ loc[t].op = "global_minimum" /\ pc'[t] = "idle" =>
              loc'[t].result = ActiveMin(local_epochs) ]_vars

\* global_minimum has returned the smaller of two different active epochs.
C23_Witness ==
    \E t \in Threads :
        /\ pc[t] = "idle" /\ loc[t].op = "global_minimum"
        /\ loc[t].result # INACTIVE
        /\ \E i \in DOMAIN local_epochs :
              local_epochs[i] # INACTIVE /\ local_epochs[i] > loc[t].result

\* The depth the specification asks for: the least d >= 1 with 4^d >= c.
LeastDepth(c) ==
    CHOOSE d \in 1 .. MAX_DEPTH :
        /\ Pow(BRANCHING_FACTOR, d) >= c
        /\ \A e \in 1 .. (d - 1) : Pow(BRANCHING_FACTOR, e) < c

\* C24: capacity rounding.  For every requested capacity c in 1..=256,
\* new(c) does not panic and yields depth() = the least d >= 1 with
\* 4^d >= c and capacity() = 4^depth().
C24_CapacityRounding ==
    requested \in 1 .. Pow(BRANCHING_FACTOR, MAX_DEPTH) =>
        /\ \A t \in Threads : pc[t] # "panicked"
        /\ capacity > 0 => /\ depth = LeastDepth(requested)
                           /\ capacity = Pow(BRANCHING_FACTOR, depth)

\* new(17) has returned a tree of capacity 64 and depth 3 (S5).
C24_Witness == requested = 17 /\ capacity = 64 /\ depth = 3

\* C25: padding leaves stay INACTIVE.  In a tree whose requested capacity
\* was rounded up, every leaf at or beyond the requested capacity is
\* INACTIVE.
C25_PaddingInactive ==
    \A i \in DOMAIN local_epochs : i >= requested => local_epochs[i] = INACTIVE

\* C26: can_reclaim.  With at least one active leaf and minimum m,
\* can_reclaim(e) returns true for e < m and false for e >= m.
C26_CanReclaim ==
    [][ \A t \in Threads :
          /\ pc[t] = "root_load" /\ loc[t].op = "can_reclaim" /\ pc'[t] = "idle"
          /\ ActiveMin(local_epochs) # INACTIVE
          => loc'[t].result = (loc[t].epoch < ActiveMin(local_epochs)) ]_vars

\* can_reclaim has returned true for an epoch that some leaf could hold.
C26_Witness ==
    \E t \in Threads :
        /\ pc[t] = "idle" /\ loc[t].op = "can_reclaim"
        /\ loc[t].result = TRUE /\ loc[t].epoch \in LeafEpochs

\* ------------------------------------------------- claims on the collector
\* One pin on a fresh collector.
FirstPin == << <<"pin", A, Col1>> >>

\* C27: pin adds one to the operation counter and goes on to
\* try_advance_and_collect only when the counter, after the increment, is a
\* multiple of GC_FREQUENCY; the first pin on a fresh collector leaves the
\* global epoch at 0.
C27_CollectEvery128 ==
    /\ [][ \A t \in Threads : pc[t] = "pin_ops" /\ pc'[t] # "pin_ops" =>
             LET c == loc[t].c IN
             /\ ops_since_gc'[c] = ops_since_gc[c] + 1
             /\ pc'[t] = "adv_load" <=> ops_since_gc'[c] % GC_FREQUENCY = 0 ]_vars
    /\ [](After(FirstPin, 1) => global_epoch[Col1] = 0)

\* C28: try_advance_and_collect drains only after its own try_advance
\* succeeded, only when the epoch e' its own compare-and-set produced is at
\* least 2, and exactly bag (e' - 2) mod 4; the bag it drains is neither bag
\* (g - 1) mod 4 nor bag g mod 4 for the global epoch g at that time.
C28_DrainsOwnEpoch ==
    /\ [][ \A t \in Threads :
             /\ pc'[t] = "col_load" /\ pc[t] # "col_load" =>
                  /\ pc[t] = "adv_cas"
                  /\ global_epoch'[loc[t].c] = loc[t].current + 1
             /\ pc[t] = "col_load" /\ pc'[t] = "col_drain" =>
                  /\ loc'[t].current = loc[t].current + 1
                  /\ loc'[t].current >= 2 ]_vars
    /\ [](\A t \in Threads : pc[t] = "col_drain" =>
             LET g == global_epoch[loc[t].c] IN
             /\ OldBag(loc[t].current) # (g - 1) % 4
             /\ OldBag(loc[t].current) # g % 4)

\* C29: defer appends to bag g mod 4 for the global epoch g at the moment of
\* the append.
C29_DeferIntoCurrentBag ==
    [][ \A t \in Threads : pc[t] = "def_append" /\ pc'[t] # "def_append" =>
          DeferBag(loc[t].epoch) = global_epoch[loc[t].c] % 4 ]_vars

\* C30: the try_advance calls that have returned true are as many as the
\* global epoch, so of the callers racing from one epoch at most one returns
\* true; a caller whose compare-and-set fails returns false, without another
\* attempt and without changing the epoch.
C30_OneWinner ==
    /\ [](\A c \in Collectors : advanced[c] = global_epoch[c])
    /\ [][ \A t \in Threads :
             /\ pc[t] = "adv_cas" /\ pc'[t] # "adv_cas"
             /\ global_epoch[loc[t].c] # loc[t].current
             => /\ pc'[t] \notin { "adv_load", "adv_scan", "col_load" }
                /\ global_epoch' = global_epoch
                /\ advanced' = advanced ]_vars

\* Two advances have succeeded and a caller holding an older epoch is about
\* to try its compare-and-set.
C30_Witness ==
    /\ advanced[Col1] = 2
    /\ \E t \in Threads :
          pc[t] = "adv_cas" /\ loc[t].c = Col1 /\ loc[t].current < global_epoch[Col1]

\* Thread t takes this step.
Steps(t) == pc'[t] # pc[t] \/ loc'[t] # loc[t]

\* C31: frame of the public try_advance.  None of its steps changes a
\* participant slot or a bag or runs a destructor, it never reaches the
\* collection, and a call that returns false leaves the global epoch as it
\* found it.
C31_TryAdvanceFrame ==
    /\ [][ \A t \in Threads :
             Steps(t) /\ (loc[t].ctx = "public" \/ loc'[t].ctx = "public") =>
                 /\ participants' = participants
                 /\ num_participants' = num_participants
                 /\ garbage' = garbage
                 /\ retired' = retired
                 /\ global_epoch' # global_epoch =>
                      /\ pc[t] = "adv_cas"
                      /\ global_epoch[loc[t].c] = loc[t].current
                 /\ Scripted /\ test'.results = Append(test.results, FALSE) =>
                      global_epoch' = global_epoch ]_vars
    /\ [](\A t \in Threads :
             loc[t].ctx = "public" => pc[t] \in { "adv_load", "adv_scan", "adv_cas" })

\* A public try_advance is at its compare-and-set while a slot is pinned and
\* a bag holds a retirement.
C31_Witness ==
    \E t \in Threads :
        /\ pc[t] = "adv_cas" /\ loc[t].ctx = "public"
        /\ \E s \in Slots : participants[loc[t].c][s].pin_count > 0
        /\ \E b \in Bags : garbage[loc[t].c][b] # << >>

\* C32: in every state and for every slot, pin_count > 0 implies that the
\* slot's epoch is not INACTIVE; the guard disposal that brings pin_count to
\* 0 leaves the epoch INACTIVE; so a slot with pin_count 0 on which no pin is
\* under way is INACTIVE, and try_advance passes over it.
C32_PinnedIsActive ==
    /\ [](\A c \in Collectors : \A s \in Slots :
             participants[c][s].pin_count > 0 => participants[c][s].epoch # INACTIVE)
    /\ [][ \A c \in Collectors : \A s \in Slots :
             participants[c][s].pin_count > 0 /\ participants'[c][s].pin_count = 0
                 => participants'[c][s].epoch = INACTIVE ]_vars
    /\ [](\A c \in Collectors : \A s \in Slots :
             /\ participants[c][s].pin_count = 0
             /\ \A t \in Threads :
                   ~(pc[t] \in { "pin_load", "pin_store", "pin_count" }
                        /\ loc[t].c = c /\ idx[t] = s)
             => participants[c][s].epoch = INACTIVE)

\* A thread has pinned twice and disposed of both guards while the other
\* thread holds a guard.
C32_Witness ==
    \E t \in Threads : \E u \in Threads \ {t} :
        /\ pc[t] = "idle" /\ guards[t] = << >> /\ idx[t] # 0
        /\ ops_since_gc[Col1] >= 3
        /\ participants[Col1][idx[t]].epoch = INACTIVE
        /\ guards[u] # << >> /\ participants[Col1][idx[u]].pin_count > 0


\* The slots of collector c that have been claimed.
InUse(c) == { s \in Slots : participants[c][s].active = 1 }

\* The lowest slot of collector c that has not been claimed (NumSlots + 1
\* when every slot has been).
LowestFree(c) ==
    IF InUse(c) = Slots THEN NumSlots + 1
    ELSE CHOOSE s \in Slots \ InUse(c) : \A r \in Slots \ InUse(c) : s <= r

\* Thread t is inside allocate_participant of collector c.
Allocating(t, c) == pc[t] = "alloc" /\ loc[t].c = c

\* C33: slot lifecycle.  A claimed slot is never released, the flag takes
\* no value other than 0 and 1, every claim takes the lowest free slot of
\* the collector and counts it, the slot a thread comes out of
\* allocate_participant with is the one it claimed, and whenever no
\* allocation is in flight the claimed slots are the prefix 1 .. n of the
\* slot array.
C33_SlotLifecycle ==
    /\ [][ \A c \in Collectors : \A s \in Slots :
             /\ participants[c][s].active = 1 => participants'[c][s].active = 1
             /\ participants'[c][s].active # participants[c][s].active =>
                  /\ s = LowestFree(c)
                  /\ \E t \in Threads :
                        Allocating(t, c) /\ idx[t] = 0 /\ idx'[t] = s
                  /\ num_participants'[c] = num_participants[c] + 1
                  /\ \A d \in Collectors : \A r \in Slots :
                        << d, r >> # << c, s >> =>
                            participants'[d][r].active = participants[d][r].active ]_vars
    /\ [][ \A t \in Threads :
             idx'[t] # idx[t] =>
                 /\ pc[t] = "alloc" /\ idx[t] = 0
                 /\ idx'[t] = LowestFree(loc[t].c)
                 /\ participants[loc[t].c][idx'[t]].active = 0
                 /\ participants'[loc[t].c][idx'[t]].active = 1 ]_vars
    /\ [](\A c \in Collectors : \A s \in Slots : participants[c][s].active \in { 0, 1 })
    /\ [](\A c \in Collectors :
             (\A t \in Threads : ~Allocating(t, c)) =>
                 \E n \in 0 .. NumSlots : InUse(c) = 1 .. n)

\* Both threads have pinned collector Col1 for the first time; the second to
\* claim passed the taken slot 1 and claimed slot 2, and no allocation is in
\* flight.
C33_Witness ==
    /\ InUse(Col1) = Slots
    /\ \E t, u \in Threads : idx[t] = 1 /\ idx[u] = 2
    /\ \A t \in Threads : ~Allocating(t, Col1)
    /\ num_participants[Col1] = NumSlots

\* C34: per-collector registration.  A thread that holds a guard of
\* collector c has a slot of c that is claimed.
C34_RegisteredWhilePinned ==
    \A c \in Collectors : \A t \in Threads :
        (\E k \in 1 .. Len(guards[t]) : guards[t][k].c = c) =>
            idx[t] \in Slots /\ participants[c][idx[t]].active = 1

\* Collector::statistics: (objects_collected, collection_cycles,
\* epoch_advances, failed_advances), each a Relaxed load.
statistics(c) ==
    << stats[c].objects_collected, stats[c].collection_cycles,
       stats[c].epoch_advances, stats[c].failed_advances >>

\* The number of destructor runs of the retirements rs.
RECURSIVE Runs(_)
Runs(rs) ==
    IF rs = {} THEN 0
    ELSE LET r == CHOOSE x \in rs : TRUE IN retired[r].runs + Runs(rs \ {r})

\* The destructors that collections of collector c have run.
Destroyed(c) == Runs({ r \in DOMAIN retired : retired[r].c = c })

\* No call is in flight.
Quiescent == \A t \in Threads : pc[t] = "idle"

\* C35: the statistics match the events.  Whenever no call is in flight,
\* epoch_advances is the global epoch, failed_advances the number of
\* try_advance calls refused for a lagging slot, collection_cycles the number
\* of advances made by try_advance_and_collect that produced an epoch of 2
\* or more, and objects_collected the number of destructors run.
C35_StatisticsMatchEvents ==
    stats # NoStats /\ Quiescent =>
        \A c \in collectors :
            ~dropped[c] =>
                statistics(c) = << Destroyed(c), events[c].collecting,
                                   global_epoch[c], events[c].refused >>

\* At rest, a collector has refused a call, and has collected and destroyed
\* a retirement.
C35_Witness ==
    /\ Quiescent
    /\ stats # NoStats
    /\ \E c \in collectors :
          /\ ~dropped[c]
          /\ stats[c].failed_advances > 0
          /\ stats[c].collection_cycles > 0
          /\ stats[c].objects_collected > 0

\* The node of the given aggregation level above leaf i.
Ancestor(i, level) == i \div Pow(BRANCHING_FACTOR, level + 1)

\* Thread t begins a call on the tree with this step.
Enters(t, op) == Steps(t) /\ pc[t] = "idle" /\ loc'[t].op = op /\ calls_left' # calls_left

\* C36: update_local(i, v) followed by local_epoch(i) returns v; no step of
\* update_local(i, v) changes a leaf other than leaf i or an internal node
\* that is not above leaf i; and when leaf i holds v already the call changes
\* no node and is over.
C36_UpdateLocalFrame ==
    /\ [][ \A t \in Threads :
             /\ Enters(t, "local_epoch")
             /\ loc[t].op = "update_local"
             /\ loc'[t].thread_id = loc[t].thread_id
             /\ pc'[t] = "idle"
             => loc'[t].result = loc[t].epoch ]_vars
    /\ [][ \A t \in Threads :
             Steps(t) /\ loc'[t].op = "update_local" =>
                 /\ \A j \in DOMAIN local_epochs :
                       j # loc'[t].thread_id => local_epochs'[j] = local_epochs[j]
                 /\ \A level \in DOMAIN aggregation : \A n \in DOMAIN aggregation[level] :
                       n # Ancestor(loc'[t].thread_id, level) =>
                           aggregation'[level][n] = aggregation[level][n] ]_vars
    /\ [][ \A t \in Threads :
             /\ Enters(t, "update_local")
             /\ loc'[t].thread_id < capacity
             /\ local_epochs[loc'[t].thread_id] = loc'[t].epoch
             => /\ local_epochs' = local_epochs
                /\ aggregation' = aggregation
                /\ pc'[t] = "idle" ]_vars

\* local_epoch(4) has returned the epoch that update_local(4, v) stored just
\* before, and the nodes above leaf 4 hold it.
C36_Witness ==
    \E t \in Threads :
        /\ pc[t] = "idle"
        /\ loc[t].op = "local_epoch"
        /\ loc[t].thread_id = 4
        /\ loc[t].result # INACTIVE
        /\ local_epochs[4] = loc[t].result
        /\ aggregation[0][1] = loc[t].result
        /\ aggregation[1][0] = loc[t].result
        /\ local_epochs[0] = INACTIVE

\* HierarchicalEpoch::new has been called and has gone as far as it goes.
NewCalled == capacity > 0 \/ \E t \in Threads : pc[t] # "idle"

\* C37: new(c) panics for c = 0 and for every c above 4^4 = 256, building
\* no tree and not looping, and builds a tree for every c in 1..=256.
C37_NewRejectsByPanic ==
    NewCalled =>
        IF requested \in 1 .. Pow(BRANCHING_FACTOR, MAX_DEPTH)
        THEN capacity > 0 /\ \A t \in Threads : pc[t] = "idle"
        ELSE capacity = 0 /\ \E t \in Threads : pc[t] = "panicked"

\* C38: a can_reclaim call during which no leaf is active returns false for
\* every epoch, and active_count returns a number of active leaves there has
\* been during the call (the number of active leaves, when no leaf changes).
C38_NoneActiveAndCount ==
    \A t \in Threads :
        pc[t] = "idle" =>
            /\ loc[t].op = "can_reclaim" /\ loc[t].hi = 0 => loc[t].result = FALSE
            /\ loc[t].op = "active_count" => loc[t].result \in loc[t].lo .. loc[t].hi

\* The two benchmark collectors agree about the last call and the epoch.
Agree ==
    /\ returned.flat = returned.hier
    /\ flat.global_epoch = hier.global_epoch

\* C39: after every call of a sequential run of register, pin(id), unpin(id)
\* and try_advance on ids register has returned, FlatEpochCollector and
\* HierarchicalEpochCollector have returned the same result and hold the
\* same global epoch.
C39_CollectorsAgree == flat # << >> => Agree

\* The same for the runs in which register has not been called more often
\* than the collectors have slots.
C39_AgreeWithinCapacity ==
    (flat # << >> /\ flat.num_participants <= MAX_PARTICIPANTS) => Agree

\* try_advance has refused on both collectors with participants pinned in
\* different subtrees, one of them behind.
C39_Witness ==
    /\ flat # << >>
    /\ returned.call = "try_advance"
    /\ returned.flat = Returns(FALSE)
    /\ returned.hier = Returns(FALSE)
    /\ flat.global_epoch >= 2
    /\ flat.participants[16] = flat.global_epoch
    /\ flat.participants[MAX_PARTICIPANTS - 1] < flat.global_epoch

\* What verify has returned: one witness per registered property, in
\* registration order, and the counters grown by the properties and by the
\* unverified witnesses.
WitnessPerProperty(state) ==
    /\ returned'.ends = "Ok"
    /\ Len(returned'.witnesses) = Len(engine.properties)
    /\ \A i \in 1 .. Len(engine.properties) :
          returned'.witnesses[i].property = engine.properties[i].name
    /\ engine'.properties = engine.properties
    /\ engine'.stats.properties_checked =
          engine.stats.properties_checked + Len(engine.properties)
    /\ engine'.stats.violations_found =
          engine.stats.violations_found + Cardinality(Unverified(returned'.witnesses))

\* Every witness's flag is the result of its property's check on the state.
FlagsAreChecks(state) ==
    \A i \in 1 .. Len(engine.properties) :
        returned'.witnesses[i].verified = check(engine.properties[i], state)

\* C40: VerificationEngine::verify returns exactly one witness per registered
\* property, in registration order, whose verified flag is the result of that
\* property's check on the given state; properties_checked grows by the
\* number of properties and violations_found by the number of unverified
\* witnesses.
C40_VerifyChecksProperties ==
    [][ \A state \in MockStates :
          Verify(state) => WitnessPerProperty(state) /\ FlagsAreChecks(state) ]_vars

\* The same without the flags.
C40_WitnessPerProperty ==
    [][ \A state \in MockStates : Verify(state) => WitnessPerProperty(state) ]_vars

\* verify has returned the witnesses of three properties, the last a
\* BoundedGarbage whose bound the state's garbage exceeds.
C40_Witness ==
    /\ engine # << >>
    /\ returned.call = "verify"
    /\ Len(returned.witnesses) = MaxProperties
    /\ engine.properties[MaxProperties].name = "BoundedGarbage"
    /\ ~check(engine.properties[MaxProperties], returned.state)
====
